---------------------------- MODULE Spec2Model ----------------------------
(***************************************************************************)
(* A model of the Arduino Colab kernel: the Bridge facade (compile/upload  *)
(* sequencing), the in-memory code-section store, the serial channel and   *)
(* the %serial command, the remote agent's request handlers and the        *)
(* remote backend's sketch packaging.                                      *)
(*                                                                         *)
(* Each subsystem has its own specification over the one tuple of          *)
(* variables; the variables of the other subsystems keep their initial     *)
(* values.                                                                 *)
(***************************************************************************)
EXTENDS Integers, Sequences, FiniteSets, TLC

VARIABLES
    mode,        \* Bridge.mode of the bridge_manager singleton
    boardPort,   \* port of the board board_manager.require_board() returns
    brLast,      \* the last Bridge.compile / Bridge.upload call: what it ran, how it ended
    logLen,      \* number of run records appended to the log file
    heap,        \* the dict objects that hold code sections, by object identity
    cm,          \* ArduinoCodeManager.sections of the code_manager singleton: a reference into heap
    stLast,      \* the last store operation: how it ended, and what a round trip started from
    serPort,     \* SerialPort.port of the selected board's serial channel
    ser,         \* SerialPort._ser: None, or "open" for an open pyserial handle
    rx,          \* lines the board has sent that no readline has taken yet
    cmdPc,       \* where the %serial command is in its code; "idle" between commands
    run,         \* the running (or last) %serial command: its options and what happened to it
    acc,         \* the list `out` of SerialPort.read
    sink,        \* the lines the command has printed
    written,     \* the payload the command wrote to the port
    elapsed,     \* time.time() - start of the running listen
    agentDefaults, \* the DEFAULT_SERIAL_CONFIG dict of the agent's process
    agentPorts,  \* the serial devices attached to the agent's machine, as comports() lists them
    agentWorkspace, \* the agent's project_workspace directory
    agLast,      \* the last request the agent served
    lsLast,      \* the last listen call tried in both modes: what reached the sink in each
    zpLast,      \* the last RemoteBackend call: the file system, the payload sent, the outcome
    serialDefaults, \* the DEFAULT_SERIAL_CONFIG dict of the kernel's process
    selBoard,    \* BoardManager.board of the board_manager singleton, its SerialPort inside
    bdLast, \* the last board command or call: its arguments, what it started from, how it ended
    raceWs,      \* project_workspace while requests run in threads: its sketch directories and their files
    racePc,      \* where each /compile or /upload request is in its handler
    raceReq      \* each request's payload, and what its handler has seen so far

bridgeVars == <<mode, boardPort, brLast, logLen>>

storeVars == <<heap, cm, stLast>>

serialVars == <<serPort, ser, rx, cmdPc, run, acc, sink, written, elapsed>>

agentVars == <<agentDefaults, agentPorts, agentWorkspace, agLast>>

listenVars == <<lsLast>>

zipVars == <<zpLast>>

boardVars == <<serialDefaults, selBoard, bdLast>>

raceVars == <<raceWs, racePc, raceReq>>

vars == <<bridgeVars, storeVars, serialVars, agentVars, listenVars, zipVars, boardVars, raceVars>>

\* What the actions of one subsystem leave alone.
notBridge == <<storeVars, serialVars, agentVars, listenVars, zipVars, boardVars, raceVars>>

notStore == <<bridgeVars, serialVars, agentVars, listenVars, zipVars, boardVars, raceVars>>

notSerial == <<bridgeVars, storeVars, agentVars, listenVars, zipVars, boardVars, raceVars>>

notAgent == <<bridgeVars, storeVars, serialVars, listenVars, zipVars, boardVars, raceVars>>

notListen == <<bridgeVars, storeVars, serialVars, agentVars, zipVars, boardVars, raceVars>>

notZip == <<bridgeVars, storeVars, serialVars, agentVars, listenVars, boardVars, raceVars>>

notBoard == <<bridgeVars, storeVars, serialVars, agentVars, listenVars, zipVars, raceVars>>

notRace == <<bridgeVars, storeVars, serialVars, agentVars, listenVars, zipVars, boardVars>>

\* Python's None.
None == "<None>"

(***************************************************************************)
(* Bridge (bridge/bridge.py)                                               *)
(***************************************************************************)
LOCAL_MODE == "local"
REMOTE_MODE == "remote"

\* Most run records the log file is let to hold.
MaxLog == 2

\* Ports the selected board can have; None when no device was found.
BoardPorts == {None, "COM3"}

\* What subprocess.run does with the build tool: exit code 0, a non-zero
\* exit code, or an exception starting it.
ToolOutcomes == {"rc0", "rc1", "oserror"}

\* Strings set_mode is called with.
ModeInputs == {"local", "remote", " Remote ", "cloud"}

Return(v) == [kind |-> "return", value |-> v, exc |-> None, msg |-> None]

Raise(e, m) == [kind |-> "raise", value |-> None, exc |-> e, msg |-> m]

Invocation(c, r) == [cmd |-> c, res |-> r]

\* mode.lower().strip() on the inputs of ModeInputs.
LowerStrip(m) == IF m = " Remote " THEN "remote" ELSE m

\* {}
EmptyDict == [k \in {} |-> None]

\* Keyword arguments set_mode is called with: none, or the remote_url and token
\* that init_project and load_project pass on (None when they were not given).
ModeKeywords ==
    {EmptyDict} \cup
    {[remote_url |-> u, token |-> t] : u \in {None, "http://agent:5000"}, t \in {None, "secret"}}

\* Bridge.set_mode(m, **kw) on a bridge in mode cur: the method takes no argument
\* but the mode.
BridgeSetMode(cur, m, kw) ==
    IF DOMAIN kw # {}
    THEN [mode |-> cur, out |-> Raise("TypeError", "set_mode() got an unexpected keyword argument")]
    ELSE IF LowerStrip(m) \notin {LOCAL_MODE, REMOTE_MODE}
    THEN [mode |-> cur, out |-> Raise("ValueError", "Invalid mode")]
    ELSE [mode |-> LowerStrip(m), out |-> Return(None)]

\* Bridge.compile: the tool invocations it makes, how it ends, and whether it
\* appended a run record.
BridgeCompile(m, port, cliOk, tool, logFile, logOk) ==
    IF m = REMOTE_MODE
    THEN [calls |-> <<>>, out |-> Raise("NotImplementedError", "Remote compile not implemented yet."), logged |-> 0]
    ELSE IF port = None
    THEN [calls |-> <<>>, out |-> Raise("RuntimeError", "No serial port is set for the board."), logged |-> 0]
    ELSE IF ~cliOk
    THEN [calls |-> <<>>, out |-> Raise("FileNotFoundError", "arduino-cli not found"), logged |-> 0]
    ELSE IF tool = "oserror"
    THEN [calls |-> <<Invocation("compile", tool)>>,
          out |-> Raise("RuntimeError", "Failed to run compile command"), logged |-> 0]
    ELSE IF tool # "rc0"
    THEN [calls |-> <<Invocation("compile", tool)>>,
          out |-> Raise("RuntimeError", "Compile failed"), logged |-> 0]
    ELSE IF logFile # None /\ ~logOk
    THEN [calls |-> <<Invocation("compile", tool)>>,
          out |-> Raise("RuntimeError", "Failed to write to log file"), logged |-> 0]
    ELSE [calls |-> <<Invocation("compile", tool)>>, out |-> Return(TRUE),
          logged |-> IF logFile # None THEN 1 ELSE 0]

\* An upload that does not look at the compile step's result.
BridgeUploadSkipsCompileCheck(m, port, cliOk, toolC, toolU, logFile, logOk) ==
    LET c == BridgeCompile(m, port, cliOk, toolC, None, logOk)
    IN  [calls |-> c.calls \o <<Invocation("upload", toolU)>>,
         out |-> IF toolU = "rc0" THEN Return(TRUE) ELSE Raise("RuntimeError", "Upload failed"),
         logged |-> 0]

\* An upload that turns a failed compile step into a False result.
BridgeUploadReturnsFalse(m, port, cliOk, toolC, toolU, logFile, logOk) ==
    LET c == BridgeCompile(m, port, cliOk, toolC, None, logOk)
    IN  IF c.out.kind = "raise"
        THEN [calls |-> c.calls, out |-> Return(FALSE), logged |-> 0]
        ELSE [calls |-> c.calls \o <<Invocation("upload", toolU)>>,
              out |-> IF toolU = "rc0" THEN Return(TRUE) ELSE Raise("RuntimeError", "Upload failed"),
              logged |-> 0]

\* Bridge.upload: compiles first (without a log file), then runs the upload
\* command.
BridgeUpload(m, port, cliOk, toolC, toolU, logFile, logOk) ==
    IF m = REMOTE_MODE
    THEN [calls |-> <<>>, out |-> Raise("NotImplementedError", "Remote upload not implemented yet."), logged |-> 0]
    ELSE LET c == BridgeCompile(m, port, cliOk, toolC, None, logOk)
         IN  IF c.out.kind = "raise"
             THEN [calls |-> c.calls, out |-> c.out, logged |-> 0]
             ELSE IF ~c.out.value
             THEN [calls |-> c.calls,
                   out |-> Raise("RuntimeError", "The code was not successfully compiled, upload failed."),
                   logged |-> 0]
             ELSE IF port = None
             THEN [calls |-> c.calls, out |-> Raise("RuntimeError", "No serial port is set for the board."), logged |-> 0]
             ELSE IF ~cliOk
             THEN [calls |-> c.calls, out |-> Raise("FileNotFoundError", "arduino-cli not found"), logged |-> 0]
             ELSE IF toolU = "oserror"
             THEN [calls |-> c.calls \o <<Invocation("upload", toolU)>>,
                   out |-> Raise("RuntimeError", "Failed to run upload command"), logged |-> 0]
             ELSE IF toolU # "rc0"
             THEN [calls |-> c.calls \o <<Invocation("upload", toolU)>>,
                   out |-> Raise("RuntimeError", "Upload failed"), logged |-> 0]
             ELSE IF logFile # None /\ ~logOk
             THEN [calls |-> c.calls \o <<Invocation("upload", toolU)>>,
                   out |-> Raise("RuntimeError", "Failed to write to log file"), logged |-> 0]
             ELSE [calls |-> c.calls \o <<Invocation("upload", toolU)>>, out |-> Return(TRUE),
                   logged |-> IF logFile # None THEN 1 ELSE 0]

NoCall == [op |-> "none", calls |-> <<>>, out |-> Return(None), logFile |-> None, logOk |-> TRUE]

InitBridgeVars ==
    /\ mode = LOCAL_MODE
    /\ boardPort = None
    /\ brLast = NoCall
    /\ logLen = 0

\* Bridge.set_mode(m), and set_mode(m, remote_url=..., token=...) as the project
\* manager calls it.
SetMode ==
    \E m \in ModeInputs, kw \in ModeKeywords :
        LET r == BridgeSetMode(mode, m, kw)
        IN  /\ mode' = r.mode
            /\ brLast' = [op |-> "set_mode", calls |-> <<>>, logFile |-> None, logOk |-> TRUE,
                          out |-> r.out, arg |-> m, kw |-> kw, prev |-> mode]
            /\ UNCHANGED <<boardPort, logLen, notBridge>>

\* `%board serial --port ...`: the selected board's port is set.
SetBoardPort ==
    \E p \in BoardPorts :
        /\ boardPort' = p
        /\ UNCHANGED <<mode, brLast, logLen, notBridge>>

\* Bridge.compile(sketch_path, log_file)
Compile ==
    \E cliOk \in BOOLEAN, tool \in ToolOutcomes, logFile \in {None, "compile.log"} :
    \E logOk \in IF logFile = None THEN {TRUE} ELSE BOOLEAN :
        LET r == BridgeCompile(mode, boardPort, cliOk, tool, logFile, logOk)
        IN  /\ logLen + r.logged <= MaxLog
            /\ brLast' = [op |-> "compile", calls |-> r.calls, out |-> r.out, logFile |-> logFile,
                          logOk |-> logOk]
            /\ logLen' = logLen + r.logged
            /\ UNCHANGED <<mode, boardPort, notBridge>>

\* Bridge.upload(sketch_path, log_file)
Upload ==
    \E cliOk \in BOOLEAN, toolC \in ToolOutcomes, toolU \in ToolOutcomes,
       logFile \in {None, "upload.log"} :
    \E logOk \in IF logFile = None THEN {TRUE} ELSE BOOLEAN :
        LET r == BridgeUpload(mode, boardPort, cliOk, toolC, toolU, logFile, logOk)
        IN  /\ logLen + r.logged <= MaxLog
            /\ brLast' = [op |-> "upload", calls |-> r.calls, out |-> r.out, logFile |-> logFile,
                          logOk |-> logOk]
            /\ logLen' = logLen + r.logged
            /\ UNCHANGED <<mode, boardPort, notBridge>>

(***************************************************************************)
(* Code-section store (code/code_manager.py)                               *)
(*                                                                         *)
(* A text is a sequence of tokens, a token a literal chunk of characters;  *)
(* the fixed strings of the source are tokens of their own. A dict is the  *)
(* sequence of its items in insertion order, as Python keeps them.         *)
(***************************************************************************)
Whitespace == {" ", "\t", "\n"}

ARDUINO_LIB_INCLUDE == <<"#include <Arduino.h>", "\n">>

BLOCK_GAP == <<"\n">>

GLOBAL_SECTION_SEPARATOR == <<"//**Global variables**", "\n">>

FUNCTIONS_SECTION_SEPARATOR == <<"//**Functions**", "\n">>

SETUP_SECTION_SEPARATOR == <<"//**Setup**", "\n">>

LOOP_SECTION_SEPARATOR == <<"//**Loop**", "\n">>

ALLOWED_SECTIONS == {"globals", "setup", "loop", "functions"}

\* Most cells the store is let to hold, over all sections.
MaxCells == 3

\* Section names, cell ids and code texts the operations are called with.
SectionInputs == ALLOWED_SECTIONS \cup {"header"}

CellIds == {"0", "a"}

CodeInputs == {<<"x">>, <<" ", "x", "\n">>, <<"x", "\n", "}">>}

RECURSIVE LStrip(_)
LStrip(t) == IF t # <<>> /\ t[1] \in Whitespace THEN LStrip(Tail(t)) ELSE t

RECURSIVE RStrip(_)
RStrip(t) == IF t # <<>> /\ t[Len(t)] \in Whitespace THEN RStrip(SubSeq(t, 1, Len(t) - 1)) ELSE t

\* str.strip()
Strip(t) == RStrip(LStrip(t))

\* str.startswith(token)
StartsWith(t, token) == t # <<>> /\ t[1] = token

\* The first line end of a text, 0 when it has none.
FirstNL(t) == IF \E i \in DOMAIN t : t[i] = "\n" THEN CHOOSE i \in DOMAIN t : t[i] = "\n" /\ \A j \in 1..(i - 1) : t[j] # "\n" ELSE 0

\* str.splitlines()
RECURSIVE SplitLines(_)
SplitLines(t) ==
    IF t = <<>> THEN <<>>
    ELSE IF FirstNL(t) = 0 THEN <<t>>
    ELSE <<SubSeq(t, 1, FirstNL(t) - 1)>> \o SplitLines(SubSeq(t, FirstNL(t) + 1, Len(t)))

\* sep.join(parts)
RECURSIVE Join(_, _)
Join(parts, sep) ==
    IF parts = <<>> THEN <<>>
    ELSE IF Len(parts) = 1 THEN parts[1]
    ELSE parts[1] \o sep \o Join(Tail(parts), sep)

Digits == <<"0", "1", "2", "3", "4", "5", "6", "7", "8", "9">>

\* str(n) of a cell counter
Str(n) == IF n < 10 THEN Digits[n + 1] ELSE Digits[(n \div 10) + 1] \o Digits[(n % 10) + 1]

Item(key, val) == [k |-> key, v |-> val]

DictKeys(d) == {d[i].k : i \in DOMAIN d}

\* d[key] = val
DictSet(d, key, val) ==
    IF key \in DictKeys(d)
    THEN [i \in DOMAIN d |-> IF d[i].k = key THEN Item(key, val) ELSE d[i]]
    ELSE Append(d, Item(key, val))

\* del d[key]
DictDel(d, key) == SelectSeq(d, LAMBDA e : e.k # key)

\* list(d.values())
DictValues(d) == [i \in DOMAIN d |-> d[i].v]

\* ArduinoCodeManager.default: the four empty sections.
EmptySections == [s \in ALLOWED_SECTIONS |-> <<>>]

\* The dict objects a reference can name.
ObjIds == {"d0", "d1"}

FreeSlot == [used |-> FALSE, d |-> EmptySections]

\* A new dict object holding d.
Alloc(h, d) ==
    LET o == CHOOSE x \in ObjIds : ~h[x].used
    IN  [heap |-> [h EXCEPT ![o] = [used |-> TRUE, d |-> d]], ref |-> o]

\* The heap once the objects no store refers to are collected.
Collect(h, ref) == [o \in ObjIds |-> IF o = ref THEN h[o] ELSE FreeSlot]

NumCells(S) == LET RECURSIVE Sum(_)
                   Sum(K) == IF K = {} THEN 0
                             ELSE LET x == CHOOSE y \in K : TRUE IN Len(S[x]) + Sum(K \ {x})
               IN  Sum(DOMAIN S)

\* ArduinoCodeManager.clear: every section of the store's dict object is set
\* to a new empty dict.
StoreClear(h, ref) == [h EXCEPT ![ref].d = [key \in DOMAIN h[ref].d |-> <<>>]]

\* ArduinoCodeManager.add_code
StoreAddCode(h, ref, section, cell_id, code) ==
    IF section \notin DOMAIN h[ref].d
    THEN [heap |-> h, out |-> Raise("ValueError", "Unknown section")]
    ELSE [heap |-> [h EXCEPT ![ref].d[section] = DictSet(@, cell_id, Strip(code))],
          out |-> Return(None)]

\* ArduinoCodeManager.remove_code
StoreRemoveCode(h, ref, section, cell_id) ==
    IF section \notin DOMAIN h[ref].d
    THEN [heap |-> h, out |-> Raise("ValueError", "Unknown section")]
    ELSE IF cell_id = None
    THEN [heap |-> [h EXCEPT ![ref].d[section] = <<>>], out |-> Return(None)]
    ELSE IF cell_id \in DictKeys(h[ref].d[section])
    THEN [heap |-> [h EXCEPT ![ref].d[section] = DictDel(@, cell_id)], out |-> Return(None)]
    ELSE [heap |-> h, out |-> Raise("ValueError", "Cell ID not found in section")]

\* section if len(section) > 0 else [placeholder]
OrPlaceholder(cells, placeholder) == IF Len(cells) > 0 THEN cells ELSE <<placeholder>>

\* ["\t" + line for line in lines]
Indented(lines) == [i \in DOMAIN lines |-> <<"\t">> \o lines[i]]

\* ArduinoCodeManager.generate (with get_section): the text, or the error of
\* the first section the store lacks.
StoreGenerate(S) ==
    IF \E s \in ALLOWED_SECTIONS : s \notin DOMAIN S
    THEN Raise("ValueError", "Unknown section")
    ELSE Return(Join(
            <<ARDUINO_LIB_INCLUDE, GLOBAL_SECTION_SEPARATOR>>
            \o OrPlaceholder(DictValues(S["globals"]), <<"// No globals variables defined">>)
            \o <<BLOCK_GAP, FUNCTIONS_SECTION_SEPARATOR>>
            \o OrPlaceholder(DictValues(S["functions"]), <<"// No functions defined">>)
            \o <<BLOCK_GAP, SETUP_SECTION_SEPARATOR, <<"void setup()", " ", "{">>>>
            \o Indented(OrPlaceholder(DictValues(S["setup"]), <<"//Setup code goes here">>))
            \o <<<<"}">>, BLOCK_GAP, LOOP_SECTION_SEPARATOR, <<"void loop()", " ", "{">>>>
            \o Indented(OrPlaceholder(DictValues(S["loop"]), <<"//Loop code goes here">>))
            \o <<<<"}">>, BLOCK_GAP>>,
            <<"\n">>))

\* The section a stripped line starts, None when it starts none.
SectionStart(line) ==
    IF line = Strip(GLOBAL_SECTION_SEPARATOR) THEN "globals"
    ELSE IF line = Strip(FUNCTIONS_SECTION_SEPARATOR) THEN "functions"
    ELSE IF line = Strip(SETUP_SECTION_SEPARATOR) \/ StartsWith(line, "void setup()") THEN "setup"
    ELSE IF line = Strip(LOOP_SECTION_SEPARATOR) \/ StartsWith(line, "void loop()") THEN "loop"
    ELSE None

\* The loop of import_from_code over the lines left, with the current
\* section and the cell counter.
RECURSIVE ImportScan(_, _, _, _)
ImportScan(lines, current_section, cell_id, S) ==
    IF lines = <<>> THEN [d |-> S, out |-> Return(None)]
    ELSE LET stripped_line == Strip(lines[1])
         IN  IF stripped_line = <<>> \/ stripped_line \in {<<"{">>, <<"}">>}
             THEN ImportScan(Tail(lines), current_section, cell_id, S)
             ELSE IF SectionStart(stripped_line) # None
             THEN ImportScan(Tail(lines), SectionStart(stripped_line),
                             IF current_section # SectionStart(stripped_line) THEN 0 ELSE cell_id, S)
             ELSE IF current_section = None
             THEN [d |-> S, out |-> Raise("ValueError", "Code does not contain any section or is incorrectly formatted.")]
             ELSE IF current_section \notin DOMAIN S
             THEN [d |-> S, out |-> Raise("KeyError", current_section)]
             ELSE ImportScan(Tail(lines), current_section, cell_id + 1,
                             [S EXCEPT ![current_section] = DictSet(@, Str(cell_id), stripped_line)])

\* ArduinoCodeManager.import_from_code
StoreImportFromCode(h, ref, code) ==
    LET r == ImportScan(SplitLines(code), None, 0, StoreClear(h, ref)[ref].d)
    IN  [heap |-> [h EXCEPT ![ref].d = r.d], out |-> r.out]

\* ArduinoCodeManager.import_from_json: json_data is a reference to the
\* caller's dict; the store keeps that very object.
StoreImportFromJson(h, ref, json_data) ==
    LET h1 == StoreClear(h, ref)
    IN  IF \E section \in DOMAIN h1[json_data].d : section \notin ALLOWED_SECTIONS
        THEN [heap |-> h1, ref |-> ref, out |-> Raise("ValueError", "Invalid sections in JSON data.")]
        ELSE [heap |-> h1, ref |-> json_data, out |-> Return(None)]

\* ArduinoCodeManager.export_as_json: the store's own dict object.
StoreExportAsJson(ref) == ref

\* Decoded JSON documents import_from_json is called with.
JsonInputs ==
    {[EmptySections EXCEPT !["globals"] = <<Item("7", <<"x">>)>>],
     [s \in {"globals"} |-> <<Item("7", <<"x">>)>>],
     [s \in {"globals", "extras"} |-> <<>>],
     [s \in ALLOWED_SECTIONS |-> <<Item("0", <<"x">>)>>]}

StoreOp(name, result, snapshot, other) == [op |-> name, out |-> result, before |-> snapshot, fresh |-> other]

InitStoreVars ==
    /\ heap = [o \in ObjIds |-> IF o = "d0" THEN [used |-> TRUE, d |-> EmptySections] ELSE FreeSlot]
    /\ cm = "d0"
    /\ stLast = StoreOp("none", Return(None), EmptySections, EmptySections)

\* code_manager.add_code(section, cell_id, code)
AddCode ==
    \E section \in SectionInputs, cell_id \in CellIds, code \in CodeInputs :
        LET r == StoreAddCode(heap, cm, section, cell_id, code)
        IN  /\ NumCells(r.heap[cm].d) <= MaxCells
            /\ heap' = r.heap
            /\ stLast' = [op |-> "add_code", out |-> r.out, before |-> EmptySections,
                          fresh |-> EmptySections,
                          args |-> [section |-> section, cell_id |-> cell_id, code |-> code]]
            /\ UNCHANGED <<cm, notStore>>

\* code_manager.remove_code(section, cell_id)
RemoveCode ==
    \E section \in SectionInputs, cell_id \in CellIds \cup {None} :
        LET r == StoreRemoveCode(heap, cm, section, cell_id)
        IN  /\ heap' = r.heap
            /\ stLast' = StoreOp("remove_code", r.out, EmptySections, EmptySections)
            /\ UNCHANGED <<cm, notStore>>

\* code_manager.clear()
Clear ==
    /\ heap' = StoreClear(heap, cm)
    /\ stLast' = StoreOp("clear", Return(None), EmptySections, EmptySections)
    /\ UNCHANGED <<cm, notStore>>

\* code_manager.import_from_json(json.load(f)): the document is a dict object
\* of its own.
ImportFromJsonDocument ==
    \E doc \in JsonInputs :
        LET a == Alloc(heap, doc)
            r == StoreImportFromJson(a.heap, cm, a.ref)
        IN  /\ heap' = Collect(r.heap, r.ref)
            /\ cm' = r.ref
            /\ stLast' = StoreOp("import_from_json", r.out, heap[cm].d, EmptySections)
            /\ UNCHANGED notStore

\* code_manager.import_from_json(code_manager.export_as_json())
JsonRoundTripSameStore ==
    LET r == StoreImportFromJson(heap, cm, StoreExportAsJson(cm))
    IN  /\ heap' = Collect(r.heap, r.ref)
        /\ cm' = r.ref
        /\ stLast' = StoreOp("json_round_trip_same", r.out, heap[cm].d, EmptySections)
        /\ UNCHANGED notStore

\* fresh = ArduinoCodeManager(); fresh.import_from_json(code_manager.export_as_json())
JsonRoundTripFreshStore ==
    LET a == Alloc(heap, EmptySections)
        r == StoreImportFromJson(a.heap, a.ref, StoreExportAsJson(cm))
    IN  /\ heap' = Collect(r.heap, cm)
        /\ stLast' = StoreOp("json_round_trip_fresh", r.out, heap[cm].d, r.heap[r.ref].d)
        /\ UNCHANGED <<cm, notStore>>

\* Sketch texts import_from_code is called with.
CodeTextInputs ==
    {<<"x">>,
     <<"//**Setup**", "\n", "x", "\n", "}">>,
     <<"{", "\n", " ", "\n", "void loop()", " ", "{", "\n", "\t", "y">>,
     <<"}", "\n", "x", "\n", "//**Loop**">>,
     <<"//**Setup**", "\n", "x", "\n", "//**Loop**", "\n", "y", "\n", "//**Setup**", "\n", "z">>}

\* code_manager.generate()
Generate ==
    /\ stLast' = StoreOp("generate", StoreGenerate(heap[cm].d), heap[cm].d, EmptySections)
    /\ UNCHANGED <<heap, cm, notStore>>

\* code_manager.import_from_code(code)
ImportCode ==
    \E code \in CodeTextInputs :
        LET r == StoreImportFromCode(heap, cm, code)
        IN  /\ heap' = r.heap
            /\ stLast' = [op |-> "import_from_code", out |-> r.out, before |-> heap[cm].d,
                          fresh |-> EmptySections, code |-> code]
            /\ UNCHANGED <<cm, notStore>>

\* code_manager.import_from_code(code_manager.generate())
ImportGenerated ==
    LET g == StoreGenerate(heap[cm].d)
    IN  /\ g.kind = "return"
        /\ LET r == StoreImportFromCode(heap, cm, g.value)
           IN  /\ heap' = r.heap
               /\ stLast' = StoreOp("import_generated", r.out, heap[cm].d, EmptySections)
        /\ UNCHANGED <<cm, notStore>>

(***************************************************************************)
(* Serial channel (bridge/serial_port.py), the Bridge's serial operations  *)
(* (bridge/bridge.py) and the %serial command (magic_serial.py)            *)
(*                                                                         *)
(* The command runs on the kernel's thread, one statement of its loops at  *)
(* a time; the board emits lines while the handle is open, and another     *)
(* thread may close the SerialPort while the command runs.  A line is a    *)
(* sequence of characters.                                                 *)
(***************************************************************************)
MaxRx == 2

MaxTime == 2

\* What pyserial's readline hands back: lines with their line ends.
RawInputs == {<<"a", "\n">>, <<"#", "b", "\r", "\n">>}

\* The default autostrip of a SerialPort.
DefaultAutostrip == TRUE

\* An option that holds a number or a text, or nothing: Python's None is Nothing here.
Nothing == <<>>

Some(v) == <<v>>

\* What _parse_serial_args makes of the command line.
CmdOpts(c, duration, prefix, lines, data, no_nl) ==
    [cmd |-> c, duration |-> duration, prefix |-> prefix, lines |-> lines, data |-> data, no_nl |-> no_nl]

CmdInputs ==
    {CmdOpts("listen", d, p, 1, Nothing, FALSE) : d \in {Nothing, Some(1)}, p \in {Nothing, Some(<<"#">>)}}
    \cup {CmdOpts("read", Nothing, Nothing, n, Nothing, FALSE) : n \in {0, 2}}
    \cup {CmdOpts("write", Nothing, Nothing, 1, Some(<<"o", "n">>), nl) : nl \in BOOLEAN}

\* Commands that never touch the port: help, the empty line, an unknown word.
OtherCmdInputs == {"help", "", "status"}

\* txt.rstrip("\r\n")
RECURSIVE RStripEol(_)
RStripEol(txt) ==
    IF txt # <<>> /\ txt[Len(txt)] \in {"\r", "\n"}
    THEN RStripEol(SubSeq(txt, 1, Len(txt) - 1))
    ELSE txt

\* The tail of SerialPort.readline: what it returns for the bytes read.
SerialPortDecode(raw, autostrip) ==
    IF raw = <<>> THEN None
    ELSE IF autostrip THEN RStripEol(raw) ELSE raw

\* line.startswith(prefix)
HasPrefix(line, prefix) ==
    /\ Len(prefix) <= Len(line)
    /\ SubSeq(line, 1, Len(prefix)) = prefix

\* SerialPort.close that, like write, insists on an open handle.
SerialPortCloseRaisesWhenClosed(s, closeOk) ==
    IF s # "open"
    THEN [ser |-> None, out |-> Raise("RuntimeError", "Serial port is not open. Call open() first.")]
    ELSE IF ~closeOk
    THEN [ser |-> None, out |-> Raise("RuntimeError", "Failed to close serial port")]
    ELSE [ser |-> None, out |-> Return(None)]

\* SerialPort.close with the finally clause dropped: a failing close keeps the handle.
SerialPortCloseKeepsHandleOnError(s, closeOk) ==
    IF s = "open" /\ ~closeOk
    THEN [ser |-> s, out |-> Raise("RuntimeError", "Failed to close serial port")]
    ELSE [ser |-> None, out |-> Return(None)]

\* SerialPort.close: the handle is dropped whether or not pyserial's close raised.
SerialPortClose(s, closeOk) ==
    IF s = "open" /\ ~closeOk
    THEN [ser |-> None, out |-> Raise("RuntimeError", "Failed to close serial port")]
    ELSE [ser |-> None, out |-> Return(None)]

\* SerialPort.open for the configured port; devOk: serial.Serial(...) succeeds.
SerialPortOpen(s, port, devOk) ==
    IF port \in {None, ""}
    THEN [ser |-> s, out |-> Raise("RuntimeError", "Port is not set")]
    ELSE IF s = "open"
    THEN [ser |-> s, out |-> Return(None)]
    ELSE IF devOk
    THEN [ser |-> "open", out |-> Return(None)]
    ELSE [ser |-> s, out |-> Raise("RuntimeError", "Failed to open serial port")]

\* Bridge.open_serial
BridgeOpenSerial(m, s, port, devOk) ==
    IF m = REMOTE_MODE
    THEN [ser |-> s, out |-> Raise("NotImplementedError", "Remote serial open")]
    ELSE LET r == SerialPortOpen(s, port, devOk)
         IN  IF r.out.kind = "raise"
             THEN [ser |-> r.ser, out |-> Raise("RuntimeError", "Failed to open serial port")]
             ELSE r

\* Bridge.close_serial
BridgeCloseSerial(m, s, closeOk) ==
    IF m = REMOTE_MODE
    THEN [ser |-> s, out |-> Raise("NotImplementedError", "Remote serial close")]
    ELSE SerialPortClose(s, closeOk)

\* The command's bookkeeping while it runs and after it returned.
NoCommand == [cmd |-> "none", opts |-> CmdOpts("none", Nothing, Nothing, 1, Nothing, FALSE),
              opened |-> FALSE, error |-> None, closedByOther |-> FALSE, interrupted |-> FALSE,
              got |-> <<>>]

InitSerialVars ==
    /\ serPort = None
    /\ ser = None
    /\ rx = <<>>
    /\ cmdPc = "idle"
    /\ run = NoCommand
    /\ acc = <<>>
    /\ sink = <<>>
    /\ written = <<>>
    /\ elapsed = 0

\* Values whose Python type decides what an operation does with them.
Bytes(v) == [type |-> "bytes", val |-> v]

Text(v) == [type |-> "str", val |-> v]

PyList(v) == [type |-> "list", val |-> v]

\* What SerialPort.write sends for a text.
WritePayload(data, append_newline) == data \o (IF append_newline THEN <<"\n">> ELSE <<>>)

\* SerialPort.write without its test of the handle.
SerialPortWriteSkipsOpenTest(s, data, append_newline, ioOk) ==
    IF data.type # "str" \/ (s = "open" /\ ~ioOk)
    THEN Raise("RuntimeError", "Failed to write to serial port")
    ELSE Return(None)

\* SerialPort.write(data, append_newline): data + "\n" is inside the try block, so
\* data that is not a str ends as the RuntimeError of the except clause.
SerialPortWrite(s, data, append_newline, ioOk) ==
    IF s # "open" THEN Raise("RuntimeError", "Serial port is not open. Call open() first.")
    ELSE IF data.type # "str" \/ ~ioOk THEN Raise("RuntimeError", "Failed to write to serial port")
    ELSE Return(None)

\* SerialPort.write reaches self._ser.write(payload): the handle is open and the
\* payload could be built.
SerialPortWriteCallsDevice(s, data) == s = "open" /\ data.type = "str"

Max(a, b) == IF a >= b THEN a ELSE b

ReadPositions == {"read_loop", "read_readline", "read_wait", "read_sleep"}

ListenPositions == {"listen_check", "listen_readline", "listen_wait", "listen_print"}

\* %serial listen|read|write ...: the command starts, its output area is empty.
StartCommand ==
    /\ cmdPc = "idle"
    /\ \E o \in CmdInputs :
        run' = [NoCommand EXCEPT !.cmd = o.cmd, !.opts = o]
    /\ cmdPc' = "open"
    /\ acc' = <<>>
    /\ sink' = <<>>
    /\ written' = <<>>
    /\ elapsed' = 0
    /\ UNCHANGED <<serPort, ser, rx, notSerial>>

\* %serial help, %serial, %serial <unknown>: the help is shown, the port is not touched.
OtherCommand ==
    /\ cmdPc = "idle"
    /\ \E c \in OtherCmdInputs :
        run' = [NoCommand EXCEPT !.cmd = c]
    /\ acc' = <<>>
    /\ sink' = <<>>
    /\ written' = <<>>
    /\ elapsed' = 0
    /\ UNCHANGED <<serPort, ser, rx, cmdPc, notSerial>>

\* bridge_manager.open_serial() at the head of the command's try block.
OpenStep ==
    /\ cmdPc = "open"
    /\ \E devOk \in BOOLEAN :
        LET r == BridgeOpenSerial(mode, ser, serPort, devOk)
        IN  /\ ser' = r.ser
            /\ IF r.out.kind = "raise"
               THEN /\ run' = [run EXCEPT !.error = r.out.exc]
                    /\ cmdPc' = "finally"
               ELSE /\ run' = [run EXCEPT !.opened = TRUE]
                    /\ cmdPc' = CASE run.cmd = "listen" -> "listen_check"
                                  [] run.cmd = "read" -> "read_loop"
                                  [] OTHER -> "write"
    /\ elapsed' = 0
    /\ UNCHANGED <<serPort, rx, acc, sink, written, notSerial>>

\* SerialPort.read: the loop test; at the end the command prints the lines.
ReadLoop ==
    /\ cmdPc = "read_loop"
    /\ IF Len(acc) < Max(1, run.opts.lines)
       THEN /\ cmdPc' = "read_readline"
            /\ sink' = sink
       ELSE /\ cmdPc' = "finally"
            /\ sink' = acc
    /\ UNCHANGED <<serPort, ser, rx, run, acc, written, elapsed, notSerial>>

\* SerialPort.readline called from read: None at once when there is no open handle.
ReadReadline ==
    /\ cmdPc = "read_readline"
    /\ cmdPc' = IF ser # "open" THEN "read_sleep" ELSE "read_wait"
    /\ UNCHANGED <<serPort, ser, rx, run, acc, sink, written, elapsed, notSerial>>

\* pyserial's readline returns to read: a line, nothing within the timeout, or an error
\* (an I/O error, or the handle was closed under the call).
ReadWait ==
    /\ cmdPc = "read_wait"
    /\ \/ /\ ser = "open" /\ rx # <<>>
          /\ acc' = Append(acc, SerialPortDecode(Head(rx), DefaultAutostrip))
          /\ rx' = Tail(rx)
          /\ cmdPc' = "read_loop"
          /\ run' = run
       \/ /\ ser # "open" \/ rx = <<>>
          /\ cmdPc' = "read_sleep"
          /\ UNCHANGED <<acc, rx, run>>
       \/ /\ cmdPc' = "finally"
          /\ run' = [run EXCEPT !.error = "RuntimeError"]
          /\ UNCHANGED <<acc, rx>>
    /\ UNCHANGED <<serPort, ser, sink, written, elapsed, notSerial>>

\* time.sleep(0.01); continue
ReadSleep ==
    /\ cmdPc = "read_sleep"
    /\ cmdPc' = "read_loop"
    /\ UNCHANGED <<serPort, ser, rx, run, acc, sink, written, elapsed, notSerial>>

\* A listen whose loop never looks at the clock.
DurationNeverElapsed(duration, t) == FALSE

\* duration is not None and (time.time() - start) >= duration
DurationElapsed(duration, t) == duration # Nothing /\ t >= duration[1]

\* SerialPort.listen: the duration test at the head of the loop.
ListenCheck ==
    /\ cmdPc = "listen_check"
    /\ cmdPc' = IF DurationElapsed(run.opts.duration, elapsed)
                THEN "finally" ELSE "listen_readline"
    /\ UNCHANGED <<serPort, ser, rx, run, acc, sink, written, elapsed, notSerial>>

\* SerialPort.readline called from listen: None, and the loop continues, without a handle.
ListenReadline ==
    /\ cmdPc = "listen_readline"
    /\ cmdPc' = IF ser # "open" THEN "listen_check" ELSE "listen_wait"
    /\ UNCHANGED <<serPort, ser, rx, run, acc, sink, written, elapsed, notSerial>>

\* A listen that hands every line to the printer, whatever the prefix.
ListenForwardsUnfiltered(line, prefix) == TRUE

\* SerialPort.listen: the test that lets a line through to the printer.
ListenForwards(line, prefix) == prefix = Nothing \/ HasPrefix(line, prefix[1])

\* pyserial's readline returns to listen: a line, which run.got keeps a record of,
\* nothing within the timeout, or an error.
ListenWait ==
    /\ cmdPc = "listen_wait"
    /\ \/ /\ ser = "open" /\ rx # <<>>
          /\ run' = [run EXCEPT !.got = Append(@, SerialPortDecode(Head(rx), DefaultAutostrip))]
          /\ rx' = Tail(rx)
          /\ cmdPc' = "listen_print"
       \/ /\ ser # "open" \/ rx = <<>>
          /\ cmdPc' = "listen_check"
          /\ UNCHANGED <<rx, run>>
       \/ /\ cmdPc' = "finally"
          /\ run' = [run EXCEPT !.error = "RuntimeError"]
          /\ UNCHANGED rx
    /\ UNCHANGED <<serPort, ser, acc, sink, written, elapsed, notSerial>>

\* SerialPort.listen with the line just read: it is printed if it passes the filter.
ListenPrint ==
    /\ cmdPc = "listen_print"
    /\ LET line == run.got[Len(run.got)]
       IN  sink' = IF ListenForwards(line, run.opts.prefix) THEN Append(sink, line) ELSE sink
    /\ cmdPc' = "listen_check"
    /\ UNCHANGED <<serPort, ser, rx, run, acc, written, elapsed, notSerial>>

\* bridge_manager.serial_write(payload, append_newline=not no_nl)
WriteStep ==
    /\ cmdPc = "write"
    /\ \E ioOk \in BOOLEAN :
        LET w == SerialPortWrite(ser, Text(run.opts.data[1]), ~run.opts.no_nl, ioOk)
        IN  IF w.kind = "return"
            THEN /\ written' = WritePayload(run.opts.data[1], ~run.opts.no_nl)
                 /\ run' = run
            ELSE /\ written' = written
                 /\ run' = [run EXCEPT !.error = "RuntimeError"]
    /\ cmdPc' = "finally"
    /\ UNCHANGED <<serPort, ser, rx, acc, sink, elapsed, notSerial>>

\* The command's finally clause: close_serial, whatever it raises is swallowed.
FinallyClose ==
    /\ cmdPc = "finally"
    /\ \E closeOk \in BOOLEAN :
        LET r == BridgeCloseSerial(mode, ser, closeOk)
        IN  /\ ser' = r.ser
            /\ rx' = IF r.ser = None THEN <<>> ELSE rx
    /\ cmdPc' = "idle"
    /\ UNCHANGED <<serPort, run, acc, sink, written, elapsed, notSerial>>

\* Ctrl+C while the command reads: listen swallows it and returns, read lets it
\* through; either way the command goes on to its finally clause.
Interrupt ==
    /\ cmdPc \in ReadPositions \cup ListenPositions
    /\ run' = [run EXCEPT !.interrupted = TRUE,
                          !.error = IF cmdPc \in ReadPositions THEN "KeyboardInterrupt" ELSE @]
    /\ cmdPc' = "finally"
    /\ UNCHANGED <<serPort, ser, rx, acc, sink, written, elapsed, notSerial>>

\* Another thread calls SerialPort.close() while the command reads.
ConcurrentClose ==
    /\ cmdPc \in ReadPositions \cup ListenPositions
    /\ ser = "open"
    /\ \E closeOk \in BOOLEAN :
        ser' = SerialPortClose(ser, closeOk).ser
    /\ rx' = <<>>
    /\ run' = [run EXCEPT !.closedByOther = TRUE]
    /\ UNCHANGED <<serPort, cmdPc, acc, sink, written, elapsed, notSerial>>

\* The board sends a line while the port is open.
Emit ==
    /\ ser = "open"
    /\ Len(rx) + Len(acc) + Len(run.got) < MaxRx
    /\ \E raw \in RawInputs : rx' = Append(rx, raw)
    /\ UNCHANGED <<serPort, ser, cmdPc, run, acc, sink, written, elapsed, notSerial>>

\* Time passes during a listen: time.time() - start grows.
Tick ==
    /\ cmdPc \in ListenPositions
    /\ elapsed < MaxTime
    /\ elapsed' = elapsed + 1
    /\ UNCHANGED <<serPort, ser, rx, cmdPc, run, acc, sink, written, notSerial>>

\* Between commands: Bridge.set_mode.
SwitchMode ==
    /\ cmdPc = "idle"
    /\ SetMode

\* Between commands: SerialPort.configure(port=p); None keeps the port.
ConfigurePort ==
    /\ cmdPc = "idle"
    /\ \E p \in BoardPorts : serPort' = IF p # None THEN p ELSE serPort
    /\ UNCHANGED <<ser, rx, cmdPc, run, acc, sink, written, elapsed, notSerial>>

(***************************************************************************)
(* Boards (board/board.py, board/board_manager.py) and the remote agent's  *)
(* request handlers (arduino_colab_server.py over backends/local_backend)  *)
(*                                                                         *)
(* A Board object is a record with its SerialPort inside; a dict is a      *)
(* function from its keys; timeouts are in milliseconds.                   *)
(***************************************************************************)
\* Device names for which suggest_port's test '"usb" in name or "acm" in name' holds.
UsbLikeDevices == {"/dev/ttyUSB0", "/dev/ttyACM0"}

\* What list_ports.comports() may return on the agent's machine.
PortLists == {<<>>, <<"COM3">>, <<"COM3", "/dev/ttyUSB0">>}

\* SerialPort.suggest_port
SuggestPort(ports) ==
    IF ports = <<>> THEN None
    ELSE IF \E i \in DOMAIN ports : ports[i] \in UsbLikeDevices
    THEN ports[CHOOSE i \in DOMAIN ports :
                   /\ ports[i] \in UsbLikeDevices
                   /\ \A j \in 1..(i - 1) : ports[j] \notin UsbLikeDevices]
    ELSE ports[1]

\* board.DEFAULT_SERIAL_CONFIG as the module defines it.
DEFAULT_SERIAL_CONFIG ==
    [baudrate |-> 115200, timeout |-> 100, encoding |-> "utf-8", autostrip |-> TRUE]

\* d[k] = v on a dict
DictPut(d, k, v) == [x \in DOMAIN d \cup {k} |-> IF x = k THEN v ELSE d[x]]

\* SerialPort.__init__ with no arguments
SerialPortInit(ports) ==
    [port |-> SuggestPort(ports), baudrate |-> 115200, timeout |-> 100,
     encoding |-> "utf-8", autostrip |-> TRUE, ser |-> None]

\* SerialPort.configure(**kw): a key that is absent or None keeps the field.
SerialPortConfigure(sp, kw) ==
    [sp EXCEPT
        !.port = IF "port" \in DOMAIN kw /\ kw.port # None THEN kw.port ELSE @,
        !.baudrate = IF "baudrate" \in DOMAIN kw THEN kw.baudrate ELSE @,
        !.timeout = IF "timeout" \in DOMAIN kw THEN kw.timeout ELSE @,
        !.encoding = IF "encoding" \in DOMAIN kw THEN kw.encoding ELSE @,
        !.autostrip = IF "autostrip" \in DOMAIN kw THEN kw.autostrip ELSE @]

\* Board.configure(port=..., name=..., fqbn=...) without a serial argument: the
\* serial configuration is the module's DEFAULT_SERIAL_CONFIG dict itself, which
\* gets the board's port written into it when it has no "port" key yet.
BoardConfigure(b, kw, defaults) ==
    LET b1 == [b EXCEPT !.port = IF "port" \in DOMAIN kw THEN kw.port ELSE @,
                        !.name = IF "name" \in DOMAIN kw THEN kw.name ELSE @,
                        !.fqbn = IF "fqbn" \in DOMAIN kw THEN kw.fqbn ELSE @]
        serial_data == IF "port" \notin DOMAIN defaults
                       THEN DictPut(defaults, "port", b1.port)
                       ELSE defaults
    IN  [board |-> [b1 EXCEPT !.serial = SerialPortConfigure(@, serial_data)],
         defaults |-> serial_data]

\* Board(name, fqbn, port)
BoardInit(name, fqbn, port, ports, defaults) ==
    LET p == IF port \in {None, ""} THEN SuggestPort(ports) ELSE port
        fresh == [name |-> None, fqbn |-> None, port |-> None, serial |-> SerialPortInit(ports)]
    IN  BoardConfigure(fresh, [port |-> p, name |-> name, fqbn |-> fqbn], defaults)

\* SerialPort.export: the serial part of the board record.
SerialPortExport(sp) ==
    [baudrate |-> sp.baudrate, timeout |-> sp.timeout, encoding |-> sp.encoding,
     autostrip |-> sp.autostrip]

\* Board.export
BoardExport(b) ==
    [name |-> b.name, fqbn |-> b.fqbn, port |-> b.port, serial |-> SerialPortExport(b.serial)]

\* get_board_from_payload: board_data is the payload's "board" entry, Nothing when
\* the payload has none.
GetBoardFromPayload(board_data, ports, defaults) ==
    IF board_data = Nothing
    THEN [out |-> Raise("ValueError", "Missing board data in payload."), defaults |-> defaults]
    ELSE LET bd == board_data[1]
             r == BoardInit(bd.name, bd.fqbn, bd.port, ports, defaults)
         IN  [out |-> Return(None),
              board |-> [r.board EXCEPT !.serial = SerialPortConfigure(@, bd.serial)],
              defaults |-> r.defaults]

\* Serial configurations a board record may carry.
SerialConfigs ==
    {[baudrate |-> 115200, timeout |-> 100, encoding |-> "utf-8", autostrip |-> TRUE],
     [baudrate |-> 9600, timeout |-> 500, encoding |-> "latin-1", autostrip |-> FALSE]}

\* Exported board records: the port is a device, empty, or unset.
BoardRecords ==
    {[name |-> n, fqbn |-> f, port |-> p, serial |-> s] :
        n \in {"uno"}, f \in {"arduino:avr:uno"}, p \in {None, "", "COM3"}, s \in SerialConfigs}

\* base64.b64encode(x).decode("ascii"): the text that stands for the bytes x.
B64Encode(x) ==
    IF x.type = "bytes"
    THEN Return([b64 |-> x.val])
    ELSE Raise("TypeError", "a bytes-like object is required")

\* base64.b64decode(s)
B64Decode(s) == Bytes(s.b64)

\* A call that does not return.
Blocks == [kind |-> "blocks", value |-> None, exc |-> None, msg |-> None]

\* An exception caught and raised again as RuntimeError.
AsRuntimeError(r, msg) == IF r.kind = "raise" THEN Raise("RuntimeError", msg) ELSE r

\* SerialPort.read(lines) as a whole, when the board sends the lines of feed and then
\* stays silent: the call returns once it has its lines, and never otherwise.
SerialPortRead(s, lines, feed, ioOk) ==
    LET n == Max(1, lines)
    IN  IF s = "open" /\ ~ioOk THEN Raise("RuntimeError", "Failed to read line from serial port")
        ELSE IF s = "open" /\ Len(feed) >= n
        THEN Return(PyList([i \in 1..n |-> SerialPortDecode(feed[i], DefaultAutostrip)]))
        ELSE Blocks

\* LocalBackend.open_serial / close_serial / read_serial / readlines_serial / write_serial
LbOpenSerial(s, port, devOk) ==
    LET r == SerialPortOpen(s, port, devOk)
    IN  [ser |-> r.ser, out |-> AsRuntimeError(r.out, "Failed to open serial port")]

LbCloseSerial(s, closeOk) ==
    LET r == SerialPortClose(s, closeOk)
    IN  [ser |-> r.ser, out |-> AsRuntimeError(r.out, "Failed to close serial port")]

LbReadSerial(s, size, feed, ioOk) ==
    AsRuntimeError(SerialPortRead(s, size, feed, ioOk), "Failed to read from serial port")

\* board.serial.readlines does not exist: the AttributeError is caught and raised again.
LbReadlinesSerial ==
    AsRuntimeError(Raise("AttributeError", "'SerialPort' object has no attribute 'readlines'"),
                   "Failed to read lines from serial port")

LbWriteSerial(s, data, append_newline, ioOk) ==
    AsRuntimeError(SerialPortWrite(s, data, append_newline, ioOk), "Failed to write to serial port")

\* The token the agent was started with.
API_TOKEN == "secret"

\* A token check that lets a request without the header through.
RequireTokenAcceptsMissing(token) == token = None \/ token = API_TOKEN

\* require_token: the wrapped handler runs iff the X-Auth-Token header (None when
\* the request has none) equals the agent's token; otherwise abort(401).
RequireToken(token) == token = API_TOKEN

\* The statements of a handler's try block.
SerialOperation(kind, s, payload, feed, ioOk) ==
    CASE kind = "read" ->
            LET data == LbReadSerial(s, IF payload.size = Nothing THEN -1 ELSE payload.size[1], feed, ioOk)
            IN  IF data.kind = "return" THEN B64Encode(data.value) ELSE data
      [] kind = "readlines" -> LbReadlinesSerial
      [] OTHER -> LbWriteSerial(s, B64Decode(payload.data[1]), payload.append_newline, ioOk)

\* A handler that closes the port only after an operation that returned.
TryThenCloseOnSuccess(op, s, closeOk) ==
    IF op.kind = "blocks"
    THEN [trace |-> <<"op">>, op |-> op.kind, ser |-> s, completed |-> FALSE, status |-> 0]
    ELSE IF op.kind = "raise"
    THEN [trace |-> <<"op">>, op |-> op.kind, ser |-> s, completed |-> TRUE, status |-> 500]
    ELSE LET c == LbCloseSerial(s, closeOk)
         IN  [trace |-> <<"op", "close">>, op |-> op.kind, ser |-> c.ser, completed |-> TRUE,
              status |-> IF c.out.kind = "return" THEN 200 ELSE 500]

\* try: <operation> finally: backend.close_serial(board), for the operation's outcome op.
TryFinallyClose(op, s, closeOk) ==
    IF op.kind = "blocks"
    THEN [trace |-> <<"op">>, op |-> op.kind, ser |-> s, completed |-> FALSE, status |-> 0]
    ELSE LET c == LbCloseSerial(s, closeOk)
         IN  [trace |-> <<"op", "close">>, op |-> op.kind, ser |-> c.ser, completed |-> TRUE,
              status |-> IF op.kind = "return" /\ c.out.kind = "return" THEN 200 ELSE 500]

\* What a request left behind: the HTTP status (0: no response yet), the port
\* operations in order, the device of the request's SerialPort and its handle, the
\* agent's defaults dict.
Response(status, trace, op, port, s, completed, defaults) ==
    [status |-> status, trace |-> trace, op |-> op, port |-> port, ser |-> s,
     completed |-> completed, defaults |-> defaults]

\* serial_read / serial_readlines / serial_write behind require_token.
ServeSerial(kind, payload, ports, defaults, devOk, ioOk, closeOk, feed) ==
    IF ~RequireToken(payload.token)
    THEN Response(401, <<>>, "none", None, None, TRUE, defaults)
    ELSE LET g == GetBoardFromPayload(payload.board, ports, defaults)
         IN  IF g.out.kind = "raise"
             THEN Response(500, <<>>, "none", None, None, TRUE, g.defaults)
             ELSE IF kind = "write" /\ (payload.data = Nothing \/ payload.data[1].b64 = <<>>)
             THEN Response(200, <<>>, "none", g.board.serial.port, g.board.serial.ser, TRUE, g.defaults)
             ELSE LET o == LbOpenSerial(g.board.serial.ser, g.board.serial.port, devOk)
                  IN  IF o.out.kind = "raise"
                      THEN Response(500, <<>>, "none", g.board.serial.port, o.ser, TRUE, g.defaults)
                      ELSE LET t == TryFinallyClose(SerialOperation(kind, o.ser, payload, feed, ioOk),
                                                    o.ser, closeOk)
                           IN  Response(t.status, <<"open">> \o t.trace, t.op, g.board.serial.port,
                                        t.ser, t.completed, g.defaults)

\* LocalBackend.compile: the port of the board is not looked at.
LocalBackendCompile(board, tool) ==
    [calls |-> <<Invocation("compile", tool)>>,
     out |-> IF tool = "oserror"
             THEN Raise("RuntimeError", "Failed to run CLI command")
             ELSE Return([status |-> tool = "rc0"])]

\* LocalBackend.upload
LocalBackendUpload(board, tool) ==
    IF board.port = None
    THEN [calls |-> <<>>, out |-> Raise("RuntimeError", "No serial port is set for the board.")]
    ELSE [calls |-> <<Invocation("upload", tool)>>,
          out |-> IF tool = "oserror"
                  THEN Raise("RuntimeError", "Failed to run CLI command")
                  ELSE Return([status |-> tool = "rc0"])]

\* The project_workspace directory: whether it exists, and the sketch in it.
NoWorkspace == [exists |-> FALSE, sketch |-> Nothing]

\* extract_sketch_dir: the workspace is removed and made anew before the payload is
\* looked at for a sketch (sketch_zip_b64 or sketch_b64; Nothing when it has neither).
ExtractSketchDir(payload, workspace) ==
    IF payload.sketch = Nothing
    THEN [out |-> Raise("ValueError", "No sketch data found in payload."),
          workspace |-> [exists |-> TRUE, sketch |-> Nothing]]
    ELSE [out |-> Return("project_workspace/sketch"),
          workspace |-> [exists |-> TRUE, sketch |-> payload.sketch]]

\* What a /compile or /upload request left behind: the HTTP status, the side effects
\* in order, the tool invocations, the board's port, the workspace and the defaults dict.
BuildResponse(status, trace, calls, port, workspace, defaults) ==
    [status |-> status, trace |-> trace, calls |-> calls, port |-> port,
     workspace |-> workspace, defaults |-> defaults]

\* compile_sketch / upload_sketch behind require_token.
ServeBuild(kind, payload, ports, defaults, workspace, tool) ==
    IF ~RequireToken(payload.token)
    THEN BuildResponse(401, <<>>, <<>>, None, workspace, defaults)
    ELSE LET x == ExtractSketchDir(payload, workspace)
         IN  IF x.out.kind = "raise"
             THEN BuildResponse(500, <<"workspace">>, <<>>, None, x.workspace, defaults)
             ELSE LET g == GetBoardFromPayload(payload.board, ports, defaults)
                  IN  IF g.out.kind = "raise"
                      THEN BuildResponse(500, <<"workspace">>, <<>>, None, x.workspace, g.defaults)
                      ELSE LET r == IF kind = "compile"
                                    THEN LocalBackendCompile(g.board, tool)
                                    ELSE LocalBackendUpload(g.board, tool)
                           IN  BuildResponse(IF r.out.kind = "return" THEN 200 ELSE 500,
                                             <<"workspace">> \o [i \in DOMAIN r.calls |-> "tool"],
                                             r.calls, g.board.port, x.workspace, g.defaults)

\* serial_open / serial_close behind require_token: the port is opened, or closed,
\* on a Board built for this request.
ServeSerialPort(kind, payload, ports, defaults, devOk, closeOk) ==
    IF ~RequireToken(payload.token)
    THEN Response(401, <<>>, "none", None, None, TRUE, defaults)
    ELSE LET g == GetBoardFromPayload(payload.board, ports, defaults)
         IN  IF g.out.kind = "raise"
             THEN Response(500, <<>>, "none", None, None, TRUE, g.defaults)
             ELSE LET o == IF kind = "open"
                           THEN LbOpenSerial(g.board.serial.ser, g.board.serial.port, devOk)
                           ELSE LbCloseSerial(g.board.serial.ser, closeOk)
                  IN  Response(IF o.out.kind = "return" THEN 200 ELSE 500, <<kind>>, "none",
                               g.board.serial.port, o.ser, TRUE, g.defaults)

\* X-Auth-Token headers of a request: the agent's token, no header, another token.
TokenInputs == {"secret", None, "guess"}

\* Sketches a payload carries.
SketchInputs == {Nothing, Some("blink")}

FeedInputs == {<<>>, <<<<"a", "\n">>>>, <<<<"a", "\n">>, <<"#", "b", "\r", "\n">>>>}

SizeInputs == {Nothing, Some(2)}

DataInputs == {Nothing, Some([b64 |-> <<>>]), Some([b64 |-> <<"o", "n">>])}

\* The "board" entry of a request's payload: absent, or a record with the serial
\* configuration a new board has.
BoardInputs == {Nothing} \cup {Some(r) : r \in {b \in BoardRecords : b.serial = DEFAULT_SERIAL_CONFIG}}

NoRequest == [kind |-> "none"]

InitAgentVars ==
    /\ agentDefaults = DEFAULT_SERIAL_CONFIG
    /\ agentPorts = <<>>
    /\ agentWorkspace = NoWorkspace
    /\ agLast = NoRequest

\* One /serial/read, /serial/readlines or /serial/write request, start to end.
ServeSerialRequest ==
    \E kind \in {"read", "readlines", "write"} :
    \E token \in TokenInputs, board \in BoardInputs :
    \E size \in IF kind = "read" THEN SizeInputs ELSE {Nothing},
       data \in IF kind = "write" THEN DataInputs ELSE {Nothing},
       nl \in IF kind = "write" THEN BOOLEAN ELSE {TRUE} :
    \* what the device does is drawn only where the request gets to ask it
    \E devOk \in IF RequireToken(token) /\ board # Nothing THEN BOOLEAN ELSE {TRUE} :
    \E closeOk \in IF RequireToken(token) /\ board # Nothing /\ devOk THEN BOOLEAN ELSE {TRUE},
       ioOk \in IF kind # "readlines" /\ RequireToken(token) /\ board # Nothing /\ devOk
                THEN BOOLEAN ELSE {TRUE} :
    \E feed \in IF kind = "read" /\ RequireToken(token) /\ board # Nothing /\ devOk /\ ioOk
                THEN FeedInputs ELSE {<<>>} :
        LET payload == [token |-> token, board |-> board, size |-> size, data |-> data,
                        append_newline |-> nl]
            r == ServeSerial(kind, payload, agentPorts, agentDefaults, devOk, ioOk, closeOk, feed)
        IN  /\ agLast' = [kind |-> kind, token |-> token, status |-> r.status, trace |-> r.trace,
                          op |-> r.op, port |-> r.port, ser |-> r.ser, completed |-> r.completed,
                          calls |-> <<>>, touched |-> r.defaults # agentDefaults]
            /\ agentDefaults' = r.defaults
            /\ UNCHANGED <<agentPorts, agentWorkspace, notAgent>>

\* One /serial/open or /serial/close request.
ServeSerialPortRequest ==
    \E kind \in {"open", "close"} :
    \E token \in TokenInputs, board \in BoardInputs :
    \E devOk \in IF kind = "open" /\ RequireToken(token) /\ board # Nothing THEN BOOLEAN ELSE {TRUE},
       closeOk \in IF kind = "close" /\ RequireToken(token) /\ board # Nothing THEN BOOLEAN ELSE {TRUE} :
        LET payload == [token |-> token, board |-> board]
            r == ServeSerialPort(kind, payload, agentPorts, agentDefaults, devOk, closeOk)
        IN  /\ agLast' = [kind |-> kind, token |-> token, status |-> r.status, trace |-> r.trace,
                          op |-> r.op, port |-> r.port, ser |-> r.ser, completed |-> r.completed,
                          calls |-> <<>>, touched |-> r.defaults # agentDefaults]
            /\ agentDefaults' = r.defaults
            /\ UNCHANGED <<agentPorts, agentWorkspace, notAgent>>

\* One /compile or /upload request.
ServeBuildRequest ==
    \E kind \in {"compile", "upload"} :
    \E token \in TokenInputs, board \in BoardInputs, sketch \in SketchInputs :
    \E tool \in IF RequireToken(token) /\ board # Nothing /\ sketch # Nothing
                THEN ToolOutcomes ELSE {"rc0"} :
        LET payload == [token |-> token, board |-> board, sketch |-> sketch]
            r == ServeBuild(kind, payload, agentPorts, agentDefaults, agentWorkspace, tool)
        IN  /\ agLast' = [kind |-> kind, token |-> token, status |-> r.status, trace |-> r.trace,
                          calls |-> r.calls, port |-> r.port,
                          touched |-> r.defaults # agentDefaults \/ r.workspace # agentWorkspace]
            /\ agentDefaults' = r.defaults
            /\ agentWorkspace' = r.workspace
            /\ UNCHANGED <<agentPorts, notAgent>>

\* A /serial/open request and then a /serial/close request with the same board
\* record and the agent's token.  Each handler builds its own Board; the Board of the
\* open request is unreachable once its handler has returned, and whether its
\* pyserial object has been finalised (which closes the device) by the end of the
\* close request is up to the interpreter.
SerialOpenThenClose ==
    \E board \in BoardInputs \ {Nothing}, devOk \in BOOLEAN, finalised \in BOOLEAN :
        LET payload == [token |-> API_TOKEN, board |-> board]
            o == ServeSerialPort("open", payload, agentPorts, agentDefaults, devOk, TRUE)
            held == GetBoardFromPayload(board, agentPorts, o.defaults).board.serial.ser
            c == ServeSerialPort("close", payload, agentPorts, o.defaults, TRUE, TRUE)
        IN  /\ agLast' = [kind |-> "open_close", token |-> API_TOKEN, board |-> board,
                          open |-> o.status, close |-> c.status,
                          acquired |-> o.ser = "open",
                          released |-> held = "open" /\ c.ser = None,
                          leftOpen |-> o.ser = "open" /\ held # "open" /\ ~finalised]
            /\ agentDefaults' = c.defaults
            /\ UNCHANGED <<agentPorts, agentWorkspace, notAgent>>

\* Tokens an agent may have been started with (--token, or a random one).
AgentTokens == {API_TOKEN, "other-secret"}

\* index: the page rendered with the agent's URL and its token.
ServeIndex(api_token) == [status |-> 200, url |-> "http://host:port/", token |-> api_token]

\* GET /, which is not behind require_token: any X-Auth-Token header, or none.
IndexRequest ==
    \E token \in TokenInputs :
        /\ agLast' = [kind |-> "index", token |-> token, response |-> ServeIndex(API_TOKEN)]
        /\ UNCHANGED <<agentDefaults, agentPorts, agentWorkspace, notAgent>>

\* A board record arrives at the agent, the agent builds the Board and exports it.
BoardRoundTrip ==
    \E rec \in BoardRecords :
        LET g == GetBoardFromPayload(Some(rec), agentPorts, agentDefaults)
        IN  /\ agLast' = [kind |-> "roundtrip", record |-> rec, ports |-> agentPorts,
                          reexport |-> BoardExport(g.board)]
            /\ agentDefaults' = g.defaults
            /\ UNCHANGED <<agentPorts, agentWorkspace, notAgent>>

\* A serial device is plugged into the agent's machine or pulled from it.
Replug ==
    /\ \E ports \in PortLists : agentPorts' = ports
    /\ UNCHANGED <<agentDefaults, agentWorkspace, agLast, notAgent>>

(***************************************************************************)
(* The kernel's selected board and the %board commands                     *)
(* (board/board_manager.py, board/board.py, magic_board.py)                *)
(***************************************************************************)
SUPPORTED_BOARDS == [uno |-> "arduino:avr:uno", nano |-> "arduino:avr:nano"]

DEFAULT_BOARD == "uno"

\* _parse_serial_args: the options given (Nothing: not given) as a dict; entries
\* that stayed None are left out.
ParseSerialArgs(a) ==
    LET put(d, k, o) == IF o = Nothing THEN d ELSE DictPut(d, k, o[1])
    IN  put(put(put(put(put(EmptyDict, "port", a.port), "baudrate", a.baud),
                    "timeout", a.timeout), "encoding", a.encoding), "autostrip", a.strip)

\* _parse_select_args: the dict holds the port when --port was given.
ParseSelectArgs(portArg) ==
    IF portArg = Nothing THEN EmptyDict ELSE DictPut(EmptyDict, "port", portArg[1])

\* Option values of `%board serial`.
SerialArgInputs ==
    [port : {Nothing, Some(""), Some("COM4")}, baud : {Nothing, Some(9600)},
     timeout : {Nothing, Some(500)}, encoding : {Nothing, Some("latin-1")},
     strip : {Nothing, Some(FALSE)}]

\* Board names `%board select` is given.
BoardNameInputs == {"uno", "nano", "mega"}

\* BoardManager.select_board
BoardManagerSelectBoard(name, ports, defaults) ==
    IF name \notin DOMAIN SUPPORTED_BOARDS
    THEN [out |-> Raise("ValueError", "board is not supported")]
    ELSE LET r == BoardInit(name, SUPPORTED_BOARDS[name], None, ports, defaults)
         IN  [out |-> Return(None), board |-> r.board, defaults |-> r.defaults]

\* The five settings of a SerialPort.
SerialConfigOf(sp) ==
    [port |-> sp.port, baudrate |-> sp.baudrate, timeout |-> sp.timeout,
     encoding |-> sp.encoding, autostrip |-> sp.autostrip]

NoBoardCall == [op |-> "none"]

\* board_manager = BoardManager() when the module is imported, with no serial
\* device attached.
InitBoardVars ==
    LET r == BoardManagerSelectBoard(DEFAULT_BOARD, <<>>, DEFAULT_SERIAL_CONFIG)
    IN  /\ serialDefaults = r.defaults
        /\ selBoard = r.board
        /\ bdLast = NoBoardCall

\* The kernel is started anew, with the devices of ports attached.
StartKernel ==
    \E ports \in PortLists :
        LET r == BoardManagerSelectBoard(DEFAULT_BOARD, ports, DEFAULT_SERIAL_CONFIG)
        IN  /\ serialDefaults' = r.defaults
            /\ selBoard' = r.board
            /\ bdLast' = NoBoardCall
            /\ UNCHANGED notBoard

\* `%board select <name> [--port p]`
BoardSelect ==
    \E name \in BoardNameInputs, portArg \in {Nothing, Some(""), Some("COM4")}, ports \in PortLists :
        LET cfg == ParseSelectArgs(portArg)
            sb == BoardManagerSelectBoard(name, ports, serialDefaults)
        IN  IF sb.out.kind = "raise"
            THEN /\ bdLast' = [op |-> "select", out |-> sb.out]
                 /\ UNCHANGED <<serialDefaults, selBoard, notBoard>>
            ELSE LET c == BoardConfigure(sb.board, cfg, sb.defaults)
                 IN  /\ selBoard' = c.board
                     /\ serialDefaults' = c.defaults
                     /\ bdLast' = [op |-> "select", out |-> Return(None)]
                     /\ UNCHANGED notBoard

\* `%board serial [--port p] [--baud n] [--timeout t] [--encoding e] [--strip b]`
BoardSerial ==
    \E a \in SerialArgInputs :
        LET kv == ParseSerialArgs(a)
        IN  IF DOMAIN kv = {}
            THEN /\ bdLast' = [op |-> "usage"]
                 /\ UNCHANGED <<serialDefaults, selBoard, notBoard>>
            ELSE LET c == BoardConfigure(selBoard, kv, serialDefaults)
                 IN  /\ selBoard' = c.board
                     /\ serialDefaults' = c.defaults
                     /\ bdLast' = [op |-> "serial", kv |-> kv,
                                   before |-> SerialConfigOf(selBoard.serial)]
                     /\ UNCHANGED notBoard

\* LocalBackend.compile / LocalBackend.upload for the selected board.
LocalBuild ==
    \E kind \in {"compile", "upload"}, tool \in ToolOutcomes :
        LET r == IF kind = "compile"
                 THEN LocalBackendCompile(selBoard, tool)
                 ELSE LocalBackendUpload(selBoard, tool)
        IN  /\ bdLast' = [op |-> kind, out |-> r.out, calls |-> r.calls]
            /\ UNCHANGED <<serialDefaults, selBoard, notBoard>>

\* selBoard.serial.open()
PortOpen ==
    \E devOk \in BOOLEAN :
        LET r == SerialPortOpen(selBoard.serial.ser, selBoard.serial.port, devOk)
        IN  /\ selBoard' = [selBoard EXCEPT !.serial.ser = r.ser]
            /\ bdLast' = [op |-> "open", out |-> r.out, wasOpen |-> selBoard.serial.ser = "open"]
            /\ UNCHANGED <<serialDefaults, notBoard>>

\* selBoard.serial.close()
PortClose ==
    \E closeOk \in BOOLEAN :
        LET r == SerialPortClose(selBoard.serial.ser, closeOk)
        IN  /\ selBoard' = [selBoard EXCEPT !.serial.ser = r.ser]
            /\ bdLast' = [op |-> "close", out |-> r.out, was |-> selBoard.serial.ser]
            /\ UNCHANGED <<serialDefaults, notBoard>>

\* selBoard.serial.write(data, append_newline)
PortWrite ==
    \E nl \in BOOLEAN, ioOk \in BOOLEAN :
        /\ bdLast' = [op |-> "write",
                      out |-> SerialPortWrite(selBoard.serial.ser, Text(<<"o", "n">>), nl, ioOk),
                      was |-> selBoard.serial.ser,
                      device |-> SerialPortWriteCallsDevice(selBoard.serial.ser, Text(<<"o", "n">>))]
        /\ UNCHANGED <<serialDefaults, selBoard, notBoard>>

\* selBoard.serial.configure(port=..., baudrate=...)
PortConfigure ==
    \E a \in {x \in SerialArgInputs : x.timeout = Nothing /\ x.encoding = Nothing /\ x.strip = Nothing} :
        /\ selBoard' = [selBoard EXCEPT !.serial = SerialPortConfigure(@, ParseSerialArgs(a))]
        /\ bdLast' = [op |-> "configure"]
        /\ UNCHANGED <<serialDefaults, notBoard>>

(***************************************************************************)
(* Bridge.serial_listen as one call, in local and in remote mode           *)
(* (bridge/bridge.py over SerialPort.listen)                               *)
(*                                                                         *)
(* The board's side of a listen is the sequence of what the readline calls *)
(* of the loop get, <<>> for a readline that timed out; a readline that    *)
(* timed out took one unit of time, the length of the port's timeout, and  *)
(* the user's Ctrl+C comes when the sequence is used up.                   *)
(***************************************************************************)
MaxPolls == 3

PollValues == {<<>>} \cup RawInputs

RECURSIVE SeqsUpTo(_, _)
SeqsUpTo(S, n) ==
    IF n = 0 THEN {<<>>}
    ELSE LET shorter == SeqsUpTo(S, n - 1)
         IN  shorter \cup {Append(q, x) : q \in {r \in shorter : Len(r) = n - 1}, x \in S}

PollInputs == SeqsUpTo(PollValues, MaxPolls)

DurationInputs == {Nothing, Some(0), Some(1), Some(2)}

PrefixInputs == {Nothing, Some(<<"#">>)}

\* The loop of SerialPort.listen from time t on, printed being what went to the printer.
RECURSIVE ListenLoop(_, _, _, _, _)
ListenLoop(polls, t, duration, prefix, printed) ==
    IF duration # Nothing /\ t >= duration[1] THEN printed
    ELSE IF polls = <<>> THEN printed
    ELSE LET raw == Head(polls)
             line == SerialPortDecode(raw, DefaultAutostrip)
         IN  IF raw = <<>>
             THEN ListenLoop(Tail(polls), t + 1, duration, prefix, printed)
             ELSE IF prefix # Nothing /\ ~HasPrefix(line, prefix[1])
             THEN ListenLoop(Tail(polls), t, duration, prefix, printed)
             ELSE ListenLoop(Tail(polls), t, duration, prefix, Append(printed, line))

\* SerialPort.listen(duration, prefix, printer) on an open port.
SerialPortListen(polls, duration, prefix) ==
    [sink |-> ListenLoop(polls, 0, duration, prefix, <<>>), out |-> Return(None)]

\* Bridge._remote_serial_listen
RemoteSerialListen(duration, prefix) ==
    [sink |-> <<>>, out |-> Raise("NotImplementedError", "Remote serial listen not implemented yet.")]

\* Bridge.serial_listen(duration, prefix) in mode m, the board's port being open.
BridgeSerialListen(m, polls, duration, prefix) ==
    IF m = REMOTE_MODE
    THEN RemoteSerialListen(duration, prefix)
    ELSE SerialPortListen(polls, duration, prefix)

InitListenVars ==
    lsLast = [op |-> "none", polls |-> <<>>, duration |-> Nothing, prefix |-> Nothing,
              local |-> SerialPortListen(<<>>, Nothing, Nothing),
              remote |-> SerialPortListen(<<>>, Nothing, Nothing)]

\* The same listen call against the same board output, once in each mode.
ListenInBothModes ==
    \E polls \in PollInputs, duration \in DurationInputs, prefix \in PrefixInputs :
        /\ lsLast' = [op |-> "listen", polls |-> polls, duration |-> duration, prefix |-> prefix,
                      local |-> BridgeSerialListen(LOCAL_MODE, polls, duration, prefix),
                      remote |-> BridgeSerialListen(REMOTE_MODE, polls, duration, prefix)]
        /\ UNCHANGED notListen

(***************************************************************************)
(* RemoteBackend: packaging a sketch and sending it (remote_backend.py)    *)
(*                                                                         *)
(* A path is the sequence of its names; a file system is the set of its    *)
(* directories and the contents of its files; a zip archive is the set of  *)
(* its entries.                                                            *)
(***************************************************************************)
FileUniverse ==
    {<<"proj", "sketch.ino">>, <<"proj", "lib", "util.h">>, <<"proj", "lib", "deep", "x.h">>,
     <<"other", "notes.txt">>}

ExtraDirs == {<<"proj">>, <<"proj", "empty">>}

ContentInputs == {"v1", "v2"}

SourceInputs == {<<"proj">>, <<"proj", "lib">>, <<"proj", "sketch.ino">>}

\* The directories above a path.
Ancestors(p) == {SubSeq(p, 1, n) : n \in 1..(Len(p) - 1)}

\* The file systems met: some files of the universe with their directories, and some
\* directories besides.
FsInputs ==
    {[files |-> f, dirs |-> UNION {Ancestors(p) : p \in DOMAIN f} \cup UNION {Ancestors(d) \cup {d} : d \in extra}] :
        f \in UNION {[S -> ContentInputs] : S \in SUBSET FileUniverse}, extra \in SUBSET ExtraDirs}

\* os.path.join(root, name)
PathJoin(root, name) == Append(root, name)

\* os.path.relpath(abs_path, dir_path) for a path under dir_path
RelPath(abs_path, dir_path) == SubSeq(abs_path, Len(dir_path) + 1, Len(abs_path))

\* One directory as os.walk lists it: its files' names and its subdirectories' names.
FileNames(fs, root) == {p[Len(p)] : p \in {q \in DOMAIN fs.files : SubSeq(q, 1, Len(q) - 1) = root}}

DirNames(fs, root) == {d[Len(d)] : d \in {q \in fs.dirs : SubSeq(q, 1, Len(q) - 1) = root}}

\* The roots os.walk(top) visits: top, then each subdirectory's walk.
RECURSIVE Walk(_, _)
Walk(fs, top) == {top} \cup UNION {Walk(fs, PathJoin(top, d)) : d \in DirNames(fs, top)}

\* A _zip_directory that does not descend into subdirectories.
ZipDirectoryTopLevelOnly(fs, dir_path) ==
    {[name |-> RelPath(PathJoin(dir_path, file), dir_path),
      content |-> fs.files[PathJoin(dir_path, file)]] : file \in FileNames(fs, dir_path)}

\* RemoteBackend._zip_directory: the archive's entries.
ZipDirectory(fs, dir_path) ==
    UNION {{[name |-> RelPath(PathJoin(root, file), dir_path),
             content |-> fs.files[PathJoin(root, file)]] : file \in FileNames(fs, root)} :
           root \in Walk(fs, dir_path)}

\* The bytes of a zip archive, and the archive read back from them.
ZipBytes(entries) == Bytes([zip |-> entries])

Unzip(bytes) == bytes.val.zip

\* RemoteBackend._prepare_sketch_payload
PrepareSketchPayload(fs, sketch_source) ==
    IF sketch_source \notin fs.dirs /\ sketch_source \notin DOMAIN fs.files
    THEN Raise("FileNotFoundError", "Sketch source does not exist.")
    ELSE IF sketch_source \in fs.dirs
    THEN Return([sketch_zip_b64 |-> B64Encode(ZipBytes(ZipDirectory(fs, sketch_source))).value])
    ELSE Return([sketch_b64 |-> B64Encode(Bytes(fs.files[sketch_source])).value])

\* payload.update(other)
DictUpdate(d, other) == [k \in DOMAIN d \cup DOMAIN other |-> IF k \in DOMAIN other THEN other[k] ELSE d[k]]

\* RemoteBackend.compile: the payload that went to /compile, if any, and the outcome.
RemoteBackendCompile(board, fs, sketch_source, extra_args, postOk) ==
    LET base == [board |-> BoardExport(board), extra_args |-> extra_args]
        sketch == PrepareSketchPayload(fs, sketch_source)
    IN  IF sketch.kind = "raise"
        THEN [sent |-> Nothing, out |-> Raise("RuntimeError", "Remote compile failed")]
        ELSE [sent |-> Some(DictUpdate(base, sketch.value)),
              out |-> IF postOk THEN Return("response")
                      ELSE Raise("RuntimeError", "Remote compile failed")]

EmptyFs == [files |-> <<>>, dirs |-> {}]

InitZipVars ==
    zpLast = [op |-> "none", fs |-> EmptyFs, source |-> <<>>, sent |-> Nothing, out |-> Return(None)]

\* RemoteBackend.compile(board, sketch_source, extra_args) on a file system fs.
RemoteCompile ==
    \E fs \in FsInputs, source \in SourceInputs, postOk \in BOOLEAN :
        LET b == BoardInit("uno", "arduino:avr:uno", "COM3", <<>>, DEFAULT_SERIAL_CONFIG).board
            r == RemoteBackendCompile(b, fs, source, <<>>, postOk)
        IN  /\ zpLast' = [op |-> "compile", fs |-> fs, source |-> source, sent |-> r.sent, out |-> r.out]
            /\ UNCHANGED notZip

(***************************************************************************)
(* /compile and /upload served by threads (arduino_colab_server.py)        *)
(*                                                                         *)
(* app.run serves each request in a thread of its own.  A handler is the   *)
(* statements of extract_sketch_dir and then the backend call; a file is   *)
(* tagged with the request that wrote it.                                  *)
(***************************************************************************)
RequestIds == {1, 2}

\* payload["sketch_name"]; "sketch" also when the payload has none.
SketchNames == {"sketch", "blink"}

\* The sketch of a payload: sketch_b64 (one .ino file) or sketch_zip_b64 (a directory).
RaceSketchInputs ==
    {[kind |-> "ino", files |-> {"sketch.ino"}],
     [kind |-> "zip", files |-> {"sketch.ino"}],
     [kind |-> "zip", files |-> {"sketch.ino", "util.h"}]}

\* The files of request r's sketch as they should lie in its directory.
OwnFiles(r, sketch) == [f \in sketch.files |-> r]

\* extract_sketch_dir that leaves the previous contents in place.
WorkspaceRmtreeKeepsContents(ws) == ws

\* if os.path.exists(DEFULT_PROJECT_DIR): shutil.rmtree(DEFULT_PROJECT_DIR)
WorkspaceRmtree(ws) == EmptyDict

\* os.makedirs(workspace_dir, exist_ok=True)
WorkspaceMakedirs(ws, name) ==
    IF name \in DOMAIN ws THEN ws ELSE DictPut(ws, name, EmptyDict)

\* Files written into a directory, over what it holds.
WriteFiles(dir, files) == [f \in DOMAIN dir \cup DOMAIN files |-> IF f \in DOMAIN files THEN files[f] ELSE dir[f]]

\* zf.extractall(workspace_dir), which makes the directory when it is missing, or
\* open(ino_path, "wb"), which needs the directory.
WorkspaceWrite(ws, name, r, sketch) ==
    IF sketch.kind = "ino" /\ name \notin DOMAIN ws
    THEN [out |-> Raise("FileNotFoundError", "No such file or directory"), ws |-> ws]
    ELSE [out |-> Return(None),
          ws |-> DictPut(ws, name, WriteFiles(IF name \in DOMAIN ws THEN ws[name] ELSE EmptyDict,
                                              OwnFiles(r, sketch)))]

\* What the build tool finds in sketch_dir.
SketchDirContents(ws, name) == IF name \in DOMAIN ws THEN Some(ws[name]) ELSE Nothing

HandlerPositions == {"rmtree", "makedirs", "write", "backend"}

NoRaceRequest == [name |-> "sketch", sketch |-> [kind |-> "ino", files |-> {"sketch.ino"}],
                  alone |-> TRUE, status |-> 0, seen |-> Nothing]

InitRaceVars ==
    /\ raceWs = EmptyDict
    /\ racePc = [r \in RequestIds |-> "idle"]
    /\ raceReq = [r \in RequestIds |-> NoRaceRequest]

\* Whether another request's handler is running while r takes a step.
OthersRunning(r) == \E o \in RequestIds \ {r} : racePc[o] \in HandlerPositions

\* After a step of r: r and every handler that was running with it did not run alone.
NoteOverlap(r, req) ==
    [o \in RequestIds |->
        IF OthersRunning(r) /\ (o = r \/ racePc[o] \in HandlerPositions)
        THEN [req[o] EXCEPT !.alone = FALSE] ELSE req[o]]

\* A /compile or /upload request with a valid token and a sketch arrives.
RequestArrives(r) ==
    /\ racePc[r] = "idle"
    /\ \E name \in SketchNames, sketch \in RaceSketchInputs :
        raceReq' = NoteOverlap(r, [raceReq EXCEPT ![r] = [NoRaceRequest EXCEPT !.name = name, !.sketch = sketch]])
    /\ racePc' = [racePc EXCEPT ![r] = "rmtree"]
    /\ UNCHANGED <<raceWs, notRace>>

\* extract_sketch_dir: the previous contents are removed.
HandlerRmtree(r) ==
    /\ racePc[r] = "rmtree"
    /\ raceWs' = WorkspaceRmtree(raceWs)
    /\ racePc' = [racePc EXCEPT ![r] = "makedirs"]
    /\ raceReq' = NoteOverlap(r, raceReq)
    /\ UNCHANGED notRace

\* extract_sketch_dir: the request's directory is made.
HandlerMakedirs(r) ==
    /\ racePc[r] = "makedirs"
    /\ raceWs' = WorkspaceMakedirs(raceWs, raceReq[r].name)
    /\ racePc' = [racePc EXCEPT ![r] = "write"]
    /\ raceReq' = NoteOverlap(r, raceReq)
    /\ UNCHANGED notRace

\* extract_sketch_dir: the sketch is written; an error ends the request with status 500.
HandlerWrite(r) ==
    /\ racePc[r] = "write"
    /\ LET w == WorkspaceWrite(raceWs, raceReq[r].name, r, raceReq[r].sketch)
       IN  /\ raceWs' = w.ws
           /\ IF w.out.kind = "raise"
              THEN /\ racePc' = [racePc EXCEPT ![r] = "idle"]
                   /\ raceReq' = NoteOverlap(r, [raceReq EXCEPT ![r].status = 500])
              ELSE /\ racePc' = [racePc EXCEPT ![r] = "backend"]
                   /\ raceReq' = NoteOverlap(r, raceReq)
    /\ UNCHANGED notRace

\* backend.compile(board, sketch_dir, extra_args) or backend.upload(...): the tool
\* reads sketch_dir; the response is sent.
HandlerBackend(r) ==
    /\ racePc[r] = "backend"
    /\ raceReq' = NoteOverlap(r, [raceReq EXCEPT ![r].status = 200,
                                                  ![r].seen = Some(SketchDirContents(raceWs, raceReq[r].name))])
    /\ racePc' = [racePc EXCEPT ![r] = "idle"]
    /\ UNCHANGED <<raceWs, notRace>>

(***************************************************************************)
(* Specifications                                                          *)
(***************************************************************************)
Init ==
    /\ InitBridgeVars
    /\ InitStoreVars
    /\ InitSerialVars
    /\ InitAgentVars
    /\ InitListenVars
    /\ InitZipVars
    /\ InitBoardVars
    /\ InitRaceVars

NextBridge == SetMode \/ SetBoardPort \/ Compile \/ Upload

SpecBridge == Init /\ [][NextBridge]_vars

NextStore ==
    \/ AddCode
    \/ RemoveCode
    \/ Clear
    \/ ImportFromJsonDocument
    \/ JsonRoundTripSameStore
    \/ JsonRoundTripFreshStore
    \/ ImportGenerated
    \/ Generate
    \/ ImportCode

SpecStore == Init /\ [][NextStore]_vars

\* The statements of the running %serial command.
CommandStep ==
    \/ OpenStep
    \/ ReadLoop
    \/ ReadReadline
    \/ ReadWait
    \/ ReadSleep
    \/ ListenCheck
    \/ ListenReadline
    \/ ListenWait
    \/ ListenPrint
    \/ WriteStep
    \/ FinallyClose

NextSerial ==
    \/ StartCommand
    \/ OtherCommand
    \/ OpenStep
    \/ ReadLoop
    \/ ReadReadline
    \/ ReadWait
    \/ ReadSleep
    \/ ListenCheck
    \/ ListenReadline
    \/ ListenWait
    \/ ListenPrint
    \/ WriteStep
    \/ FinallyClose
    \/ Interrupt
    \/ ConcurrentClose
    \/ Emit
    \/ Tick
    \/ SwitchMode
    \/ ConfigurePort

SpecSerial == Init /\ [][NextSerial]_vars

\* The command's thread keeps running: a statement that can be executed is executed,
\* and the clock of a running listen advances.
FairSpecSerial == SpecSerial /\ WF_vars(CommandStep) /\ WF_vars(Tick)

NextAgent ==
    \/ ServeSerialRequest
    \/ ServeSerialPortRequest
    \/ ServeBuildRequest
    \/ BoardRoundTrip
    \/ Replug
    \/ SerialOpenThenClose
    \/ IndexRequest

SpecAgent == Init /\ [][NextAgent]_vars

NextBoard ==
    \/ StartKernel
    \/ BoardSelect
    \/ BoardSerial
    \/ LocalBuild
    \/ PortOpen
    \/ PortClose
    \/ PortConfigure
    \/ PortWrite

SpecBoard == Init /\ [][NextBoard]_vars

NextRace ==
    \/ \E r \in RequestIds : RequestArrives(r)
    \/ \E r \in RequestIds : HandlerRmtree(r)
    \/ \E r \in RequestIds : HandlerMakedirs(r)
    \/ \E r \in RequestIds : HandlerWrite(r)
    \/ \E r \in RequestIds : HandlerBackend(r)

SpecRace == Init /\ [][NextRace]_vars

NextListen == ListenInBothModes

SpecListen == Init /\ [][NextListen]_vars

NextZip == RemoteCompile

SpecZip == Init /\ [][NextZip]_vars

(***************************************************************************)
(* Claims                                                                  *)
(***************************************************************************)

\* The positions of the calls of command c in a call's invocations.
CallsOf(c) == {i \in 1..Len(brLast.calls) : brLast.calls[i].cmd = c}

\* C1: within one Bridge.upload call the upload command is invoked only after
\* a compile command of the same call exited with code 0, and when a compile
\* command of the call did not, the call invokes no upload command.
C1_UploadOnlyAfterCompileSuccess ==
    brLast.op = "upload" =>
        /\ \A i \in CallsOf("upload") :
               \E j \in CallsOf("compile") : j < i /\ brLast.calls[j].res = "rc0"
        /\ (\E j \in CallsOf("compile") : brLast.calls[j].res # "rc0") => CallsOf("upload") = {}

\* An upload call whose compile step succeeded and which went on to invoke
\* the upload command.
C1_Witness ==
    /\ brLast.op = "upload"
    /\ Len(brLast.calls) = 2
    /\ brLast.calls[1] = Invocation("compile", "rc0")
    /\ brLast.calls[2].cmd = "upload"

BagOf(seq) == [v \in {seq[i] : i \in DOMAIN seq} |-> Cardinality({i \in DOMAIN seq : seq[i] = v})]

\* C3: JSON round-trip law. After import_from_json(export_as_json()), on the
\* store that exported or on a fresh store, the importing store holds the
\* section -> cell id -> text mapping the exporting store had at export.
C3_JsonRoundTripIsIdentity ==
    /\ (stLast.op = "json_round_trip_same" /\ DOMAIN stLast.before = ALLOWED_SECTIONS)
           => (stLast.out.kind = "return" /\ heap[cm].d = stLast.before)
    /\ (stLast.op = "json_round_trip_fresh" /\ DOMAIN stLast.before = ALLOWED_SECTIONS)
           => (stLast.out.kind = "return" /\ stLast.fresh = stLast.before)

\* C4: weak text round-trip law. For a store with at least one fragment in
\* each of the four sections, import_from_code(generate()) ends without an
\* error and leaves every section with the multiset of fragment texts it had.
C4_TextRoundTripKeepsFragments ==
    (/\ stLast.op = "import_generated"
     /\ DOMAIN stLast.before = ALLOWED_SECTIONS
     /\ \A s \in ALLOWED_SECTIONS : Len(stLast.before[s]) >= 1)
        => /\ stLast.out.kind = "return"
           /\ \A s \in ALLOWED_SECTIONS :
                  BagOf(DictValues(heap[cm].d[s])) = BagOf(DictValues(stLast.before[s]))

\* C5: a read loop still waiting for lines, or a listen started without a duration,
\* whose channel another thread has closed, comes to an end.
C5_BlockedLoopEndsAfterClose ==
    (/\ run.closedByOther
     /\ ser = None
     /\ \/ cmdPc \in ReadPositions
        \/ cmdPc \in ListenPositions /\ run.opts.duration = Nothing)
    ~> (cmdPc = "idle")

\* C6: between %serial commands the serial handle is not open, however the last
\* command ended.
C6_ClosedBetweenCommands == (cmdPc = "idle") => (ser = None)

\* A command returned whose open succeeded and whose operation raised.
C6_Witness ==
    /\ cmdPc = "idle"
    /\ run.opened
    /\ run.error # None
    /\ ser = None

\* C7: a /serial/read, /serial/readlines or /serial/write request opens the port
\* before its operation and closes it afterwards, also when the operation raises;
\* a completed request has left no open handle.
C7_OpenBeforeOperationCloseAfter ==
    agLast.kind \in {"read", "readlines", "write"} =>
        /\ \A i \in DOMAIN agLast.trace :
               agLast.trace[i] = "op" =>
                   /\ \E j \in 1..(i - 1) : agLast.trace[j] = "open"
                   /\ agLast.completed =>
                          \E k \in (i + 1)..Len(agLast.trace) : agLast.trace[k] = "close"
        /\ agLast.completed => agLast.ser = None

\* A write request whose operation raised, between its open and its close.
C7_Witness ==
    /\ agLast.kind = "write"
    /\ agLast.completed
    /\ agLast.op = "raise"
    /\ agLast.trace = <<"open", "op", "close">>
    /\ agLast.ser = None

\* C8: for the same lines from the board, the same duration and the same prefix,
\* serial_listen in remote mode ends as in local mode and has passed the same lines
\* to the sink in the same order.
C8_ListenSameInBothModes ==
    lsLast.op = "listen" => lsLast.remote = lsLast.local

\* C9: a Board rebuilt on the agent from an exported record exports to that record
\* again, whatever the record's port.
C9_ExportImportSymmetric ==
    agLast.kind = "roundtrip" => agLast.reexport = agLast.record

\* The files under a directory at their paths relative to it.
FilesUnder(fs, dir_path) ==
    {[name |-> RelPath(p, dir_path), content |-> fs.files[p]] :
        p \in {q \in DOMAIN fs.files : Len(q) > Len(dir_path) /\ SubSeq(q, 1, Len(dir_path)) = dir_path}}

\* C10: for a directory source, RemoteBackend.compile sends the sketch under the key
\* sketch_zip_b64 and not under sketch_b64, and the archive holds exactly the files
\* under the directory, each at its relative path.
C10_DirectoryPayloadIsExactArchive ==
    (zpLast.op = "compile" /\ zpLast.source \in zpLast.fs.dirs) =>
        /\ zpLast.sent # Nothing
        /\ "sketch_zip_b64" \in DOMAIN zpLast.sent[1]
        /\ "sketch_b64" \notin DOMAIN zpLast.sent[1]
        /\ Unzip(B64Decode(zpLast.sent[1].sketch_zip_b64)) = FilesUnder(zpLast.fs, zpLast.source)

\* A directory with a file of its own, a file two levels down and a file outside it
\* was packaged and sent.
C10_Witness ==
    /\ zpLast.op = "compile"
    /\ zpLast.source = <<"proj">>
    /\ DOMAIN zpLast.fs.files = FileUniverse
    /\ zpLast.sent # Nothing
    /\ Cardinality(Unzip(B64Decode(zpLast.sent[1].sketch_zip_b64))) = 3


\* The POST endpoints of the agent, as agLast.kind names them.
Endpoints == {"compile", "upload", "open", "close", "read", "readlines", "write"}

\* C11: a request to any POST endpoint whose X-Auth-Token header is missing or is
\* not the agent's token is answered 401, and nothing has happened for it: no
\* workspace reset, no tool invocation, no serial open, read, write or close, and
\* the agent's workspace and defaults are as they were.
C11_UnauthorizedRequestHasNoEffect ==
    (agLast.kind \in Endpoints /\ agLast.token # API_TOKEN) =>
        /\ agLast.status = 401
        /\ agLast.trace = <<>>
        /\ agLast.calls = <<>>
        /\ ~agLast.touched

\* An upload request with a wrong token arrives while the workspace holds the
\* sketch of an earlier request, and is turned away.
C11_Witness ==
    /\ agLast.kind = "upload"
    /\ agLast.token = "guess"
    /\ agLast.status = 401
    /\ agentWorkspace = [exists |-> TRUE, sketch |-> Some("blink")]


\* The build tool ran for the call's own command and exited 0.
ToolRunSucceeded(call) ==
    /\ call.calls # <<>>
    /\ call.calls[Len(call.calls)] = Invocation(call.op, "rc0")

\* C12: when the log file cannot be written during Bridge.compile or Bridge.upload,
\* the caller still sees the result of the tool run itself: success exactly when
\* the tool ran and exited 0.
C12_LogFailureKeepsOutcome ==
    (brLast.op \in {"compile", "upload"} /\ brLast.logFile # None /\ ~brLast.logOk) =>
        (brLast.out = Return(TRUE) <=> ToolRunSucceeded(brLast))


\* C13: LocalBackend.upload on a board whose port is unset or empty raises the
\* missing-port error and starts no build tool; LocalBackend.compile runs the tool
\* whatever the port is.
C13_UploadNeedsPortCompileDoesNot ==
    /\ (bdLast.op = "upload" /\ selBoard.port \in {None, ""}) =>
           /\ bdLast.calls = <<>>
           /\ bdLast.out = Raise("RuntimeError", "No serial port is set for the board.")
    /\ bdLast.op = "compile" => Len(bdLast.calls) = 1


\* The keyword arguments carry no base URL or no token.
RemoteParameterMissing(kw) ==
    \/ "remote_url" \notin DOMAIN kw
    \/ "token" \notin DOMAIN kw
    \/ kw.remote_url = None
    \/ kw.token = None

\* C14: set_mode for remote mode without a base URL or without a token fails, and
\* a set_mode call that fails leaves the mode as it was.
C14_RemoteModeNeedsUrlAndToken ==
    brLast.op = "set_mode" =>
        /\ (LowerStrip(brLast.arg) = REMOTE_MODE /\ RemoteParameterMissing(brLast.kw)) =>
               brLast.out.kind = "raise"
        /\ brLast.out.kind = "raise" => mode = brLast.prev


\* C15: add_code on one of the four section names is an upsert: afterwards the
\* section holds the trimmed text exactly once, under cell_id; the section grows
\* by one entry when cell_id is new and not at all when it is replaced; the other
\* cells of the section and the other sections are as before.
C15_AddCodeIsUpsert ==
    [][(stLast'.op = "add_code" /\ stLast'.args.section \in ALLOWED_SECTIONS) =>
          LET a == stLast'.args
              S == heap[cm].d
              T == heap'[cm'].d
          IN  /\ stLast'.out.kind = "return"
              /\ DOMAIN T = DOMAIN S
              /\ Cardinality({i \in DOMAIN T[a.section] : T[a.section][i].k = a.cell_id}) = 1
              /\ \A i \in DOMAIN T[a.section] :
                     T[a.section][i].k = a.cell_id => T[a.section][i].v = Strip(a.code)
              /\ Len(T[a.section]) =
                     Len(S[a.section]) + (IF a.cell_id \in DictKeys(S[a.section]) THEN 0 ELSE 1)
              /\ \A i \in DOMAIN S[a.section] :
                     S[a.section][i].k # a.cell_id =>
                         \E j \in DOMAIN T[a.section] : T[a.section][j] = S[a.section][i]
              /\ \A x \in DOMAIN S \ {a.section} : T[x] = S[x]
      ]_vars

\* C16: the store has exactly the four sections globals, setup, loop and functions
\* after any operations, so add_code on one of the four is accepted and generate()
\* returns a text.
C16_StoreKeepsFourSections ==
    /\ DOMAIN heap[cm].d = ALLOWED_SECTIONS
    /\ (stLast.op = "add_code" /\ stLast.args.section \in ALLOWED_SECTIONS) =>
           stLast.out.kind = "return"
    /\ stLast.op = "generate" => stLast.out.kind = "return"


\* The order in which generate() writes the sections.
GenerateOrder == <<"globals", "functions", "setup", "loop">>

\* The marker comment and the placeholder comment of a section.
SectionMarker(s) ==
    CASE s = "globals" -> "//**Global variables**"
      [] s = "functions" -> "//**Functions**"
      [] s = "setup" -> "//**Setup**"
      [] s = "loop" -> "//**Loop**"

SectionPlaceholder(s) ==
    CASE s = "globals" -> "// No globals variables defined"
      [] s = "functions" -> "// No functions defined"
      [] s = "setup" -> "//Setup code goes here"
      [] s = "loop" -> "//Loop code goes here"

\* Where a token stands in a text, and whether a text holds another.
Positions(t, token) == {i \in DOMAIN t : t[i] = token}

Occurs(sub, t) == \E k \in 1..(Len(t) - Len(sub) + 1) : SubSeq(t, k, k + Len(sub) - 1) = sub

\* C17: generate() returns a text that begins with the include line and holds each
\* of the four section markers once, in the order globals, functions, setup, loop;
\* between a marker and the next stand the section's fragments, and the section's
\* placeholder exactly when the section is empty; the store is as it was.
C17_GenerateLayout ==
    stLast.op = "generate" =>
        /\ stLast.out.kind = "return"
        /\ heap[cm].d = stLast.before
        /\ LET t == stLast.out.value
               S == stLast.before
               at(k) == CHOOSE i \in Positions(t, SectionMarker(GenerateOrder[k])) : TRUE
               end(k) == IF k = 4 THEN Len(t) ELSE at(k + 1) - 1
           IN  /\ SubSeq(t, 1, Len(ARDUINO_LIB_INCLUDE)) = ARDUINO_LIB_INCLUDE
               /\ \A k \in 1..4 : Cardinality(Positions(t, SectionMarker(GenerateOrder[k]))) = 1
               /\ Len(ARDUINO_LIB_INCLUDE) < at(1)
               /\ \A k \in 1..3 : at(k) < at(k + 1)
               /\ \A k \in 1..4 :
                      LET s == GenerateOrder[k]
                          body == SubSeq(t, at(k) + 1, end(k))
                      IN  /\ \A i \in DOMAIN S[s] : Occurs(S[s][i].v, body)
                          /\ (Positions(body, SectionPlaceholder(s)) # {}) <=> (S[s] = <<>>)
                          /\ Positions(t, SectionPlaceholder(s)) \subseteq
                                 {at(k) + j : j \in Positions(body, SectionPlaceholder(s))}

\* A text has a line that is not blank, not a lone brace and not a section start,
\* with no section start on the lines before it.
HasLineBeforeAnySection(code) ==
    LET lines == SplitLines(code)
    IN  \E i \in DOMAIN lines :
            /\ Strip(lines[i]) # <<>>
            /\ Strip(lines[i]) \notin {<<"{">>, <<"}">>}
            /\ SectionStart(Strip(lines[i])) = None
            /\ \A j \in 1..(i - 1) : SectionStart(Strip(lines[j])) = None

\* C18: import_from_code raises the format error exactly for a text with such a line
\* ahead of every section start, and ends without an error for every other text.
C18_FormatErrorExactlyForStrayLine ==
    stLast.op = "import_from_code" =>
        IF HasLineBeforeAnySection(stLast.code)
        THEN stLast.out = Raise("ValueError", "Code does not contain any section or is incorrectly formatted.")
        ELSE stLast.out.kind = "return"


\* A configuration with the entries of kv put in place of its own.
Merged(config, kv) == [k \in DOMAIN config |-> IF k \in DOMAIN kv THEN kv[k] ELSE config[k]]

\* C19: after `%board serial` with some of --port, --baud, --timeout, --encoding,
\* --strip, the serial configuration of the selected board is the one it had, with
\* the given fields set to the given values and the others kept.
C19_SerialCommandMergesGivenFields ==
    bdLast.op = "serial" => SerialConfigOf(selBoard.serial) = Merged(bdLast.before, bdLast.kv)

\* C20: open() on a channel that is open returns without an error and keeps the
\* handle.
C20_OpenWhenOpenIsNoOp ==
    (bdLast.op = "open" /\ bdLast.wasOpen) =>
        /\ bdLast.out = Return(None)
        /\ selBoard.serial.ser = "open"

\* C21: SerialPort.close leaves the channel closed with no handle held, from an open
\* and from a closed channel alike, also when pyserial's close raised; on a channel
\* that is already closed it returns without raising.
C21_CloseIsIdempotent ==
    bdLast.op = "close" =>
        /\ selBoard.serial.ser = None
        /\ (bdLast.was # "open" => bdLast.out = Return(None))

\* close() was called on a channel that was already closed.
C21_Witness ==
    /\ bdLast.op = "close"
    /\ bdLast.was = None
    /\ selBoard.serial.port = "COM3"

\* C22: SerialPort.write on a closed channel raises the not-open RuntimeError, hands
\* nothing to the device and leaves the channel closed.
C22_WriteOnClosedRaisesNotOpen ==
    (bdLast.op = "write" /\ bdLast.was # "open") =>
        /\ bdLast.out = Raise("RuntimeError", "Serial port is not open. Call open() first.")
        /\ ~bdLast.device
        /\ selBoard.serial.ser = None

\* write() was called on a closed channel whose port is configured.
C22_Witness ==
    /\ bdLast.op = "write"
    /\ bdLast.was = None
    /\ selBoard.serial.port = "COM4"

\* The backend call of request r ran on a directory that did not hold exactly the
\* files of r's own sketch.
RanOnForeignWorkspace(r) ==
    /\ raceReq[r].seen # Nothing
    /\ raceReq[r].seen[1] # Some(OwnFiles(r, raceReq[r].sketch))

\* C23: a /compile or /upload handler that ran with no other handler running beside
\* it had exactly its own sketch in its directory when the backend was called; only
\* handlers that interleave can find the directory wiped or holding the other's files.
C23_WorkspaceRaceNeedsConcurrency ==
    \A r \in RequestIds : RanOnForeignWorkspace(r) => ~raceReq[r].alone

\* Two requests interleaved and one's backend call ran on a wiped or replaced directory.
C23_Witness ==
    \E r \in RequestIds : RanOnForeignWorkspace(r) /\ ~raceReq[r].alone

\* The content lines the scan of import_from_code attributes to section s, in order
\* of appearance, current being the section the scan is in.
RECURSIVE AttributedLines(_, _, _)
AttributedLines(lines, current, s) ==
    IF lines = <<>> THEN <<>>
    ELSE LET stripped_line == Strip(lines[1])
         IN  IF stripped_line = <<>> \/ stripped_line \in {<<"{">>, <<"}">>}
             THEN AttributedLines(Tail(lines), current, s)
             ELSE IF SectionStart(stripped_line) # None
             THEN AttributedLines(Tail(lines), SectionStart(stripped_line), s)
             ELSE IF current = s
             THEN <<stripped_line>> \o AttributedLines(Tail(lines), current, s)
             ELSE AttributedLines(Tail(lines), current, s)

\* C24: after an import_from_code that returned, every section holds the content
\* lines attributed to it, in order, under the ids "0", "1", ..., one cell per line.
C24_ImportNumbersEveryLine ==
    (stLast.op = "import_from_code" /\ stLast.out = Return(None)) =>
        \A s \in DOMAIN heap[cm].d :
            LET a == AttributedLines(SplitLines(stLast.code), None, s)
            IN  heap[cm].d[s] = [i \in 1..Len(a) |-> Item(Str(i - 1), a[i])]

\* C28: an import that raises its ValueError (import_from_json for a key that is no
\* section, import_from_code for a line before any section) leaves the store's
\* sections and cells as they were before the call.
C28_RejectedImportIsAtomic ==
    (/\ stLast.op \in {"import_from_json", "import_from_code"}
     /\ stLast.out.kind = "raise"
     /\ stLast.out.exc = "ValueError") =>
        heap[cm].d = stLast.before

\* The lines of a sequence that start with the prefix; all of them without a prefix.
RECURSIVE PassingLines(_, _)
PassingLines(lines, prefix) ==
    IF lines = <<>> THEN <<>>
    ELSE IF prefix = Nothing \/ (Len(prefix[1]) <= Len(Head(lines))
                                 /\ \A i \in DOMAIN prefix[1] : Head(lines)[i] = prefix[1][i])
    THEN <<Head(lines)>> \o PassingLines(Tail(lines), prefix)
    ELSE PassingLines(Tail(lines), prefix)

\* The listen command is not between reading a line and printing it.
NoLinePending == cmdPc # "listen_print"

\* C25 as stated: what a listen has handed to the sink is, in order and once each,
\* exactly the lines its readline calls returned that pass the prefix filter.
C25_SinkIsFilteredLinesRead ==
    (run.cmd = "listen" /\ NoLinePending) => sink = PassingLines(run.got, run.opts.prefix)

\* C25, amended: the same, except that the last line read is missing from the sink
\* when Ctrl+C came between the readline that returned it and the printer call.
C25_SinkIsFilteredLinesReadUnlessCancelled ==
    (run.cmd = "listen" /\ NoLinePending) =>
        \/ sink = PassingLines(run.got, run.opts.prefix)
        \/ /\ run.interrupted
           /\ run.got # <<>>
           /\ sink = PassingLines(SubSeq(run.got, 1, Len(run.got) - 1), run.opts.prefix)

\* A listen with a prefix filter returned after it read a line that passes and a line
\* that does not.
C25_Witness ==
    /\ run.cmd = "listen"
    /\ cmdPc = "idle"
    /\ run.opts.prefix # Nothing
    /\ Len(run.got) = 2
    /\ Len(sink) = 1
    /\ ~run.interrupted

\* C26: a listen started with a duration comes to its end, whether the board sends
\* lines, stays silent or the port gets closed under it; and a listen ended by
\* Ctrl+C has returned without an error.
C26_TimedListenReturns ==
    /\ [](run.cmd = "listen" /\ run.interrupted => run.error = None)
    /\ (cmdPc \in ListenPositions /\ run.opts.duration # Nothing) ~> (cmdPc \notin ListenPositions)

\* A listen with a duration ran until its time was up and returned, having printed a line.
C26_Witness ==
    /\ run.cmd = "listen"
    /\ cmdPc = "idle"
    /\ run.opts.duration # Nothing
    /\ elapsed >= run.opts.duration[1]
    /\ ~run.interrupted
    /\ run.error = None
    /\ sink # <<>>

\* C27: after a board selection or a Board.configure call, the Board's port is the
\* port of the Board's own SerialPort.
C27_BoardPortIsSerialPort ==
    bdLast.op \in {"select", "serial"} => selBoard.port = selBoard.serial.port

\* C29: when /serial/open and then /serial/close for the same board record both
\* answered 200, the close released the handle the open acquired, and no handle the
\* agent acquired is open afterwards.
C29_CloseReleasesWhatOpenAcquired ==
    (agLast.kind = "open_close" /\ agLast.open = 200 /\ agLast.close = 200) =>
        /\ agLast.acquired => agLast.released
        /\ ~agLast.leftOpen

\* C30: what the agent answers to a request that does not carry its token is the
\* same whatever token the agent was started with.
C30_AnswerIndependentOfToken ==
    (agLast.kind = "index" /\ agLast.token # API_TOKEN) =>
        \A t \in AgentTokens : agLast.response = ServeIndex(t)

=============================================================================
